---------------------------- MODULE Spec2Model ----------------------------
(***************************************************************************)
(* A model of the simulation core of KinsOpolis: the useGameState hook     *)
(* (src/hooks/useGameState.ts), the App component's game loop and history  *)
(* (src/App.tsx), the land value field (services/analytics) and the A*     *)
(* path planner (src/services/pathfinding.ts).                             *)
(*                                                                         *)
(* One set of variables holds either program: `variant` says which one a   *)
(* behaviour runs ("hook", "app", "path", ...), and every action is guarded*)
(* by it.  Every handler is a pure operator from a state record to a state *)
(* record, so that "undo followed by redo" is an expression over one      *)
(* state.                                                                  *)
(***************************************************************************)
EXTENDS Integers, Sequences, FiniteSets, TLC

VARIABLES
    variant,        \* which program this behaviour runs: "hook", "app", "path",
                    \* "land", "cost", "race", "tick" or "town"
    grid,           \* useState<Grid>: grid[y][x] is the tile at (x, y)
    stats,          \* useState<CityStats>
    quests,         \* hook: useState<Quest[]>; unused by the App
    history,        \* useState<HistoryState[]>: the undo/redo stack
    historyIndex,   \* useState(-1): 0-based cursor into history, -1 when empty
    currentGoal,    \* App: useState<AIGoal | null>
    gameStarted,    \* App: useState(false)
    aiEnabled,      \* App: useState(true)
    lastOp,         \* the operation the last step performed, and its outcome
    steps,          \* number of operations performed (bounds the model)
    pushed,         \* the snapshots recorded since the history was last reset
    rewinds,        \* number of undos and redos that moved the cursor since then
    pfGrid,         \* findPath: the grid argument
    pfStart,        \* findPath: the start argument
    pfEnd,          \* findPath: the end argument
    openList,       \* findPath: Node[] (parents are stored as coordinate paths)
    closedList,     \* findPath: the coordinates whose closedList cell is true
    pfPc,           \* findPath: "idle" | "start" | "loop" | "done"
    pfResult,       \* findPath: the returned path, or NoPath for null
    lvGrid,         \* computeLandValueMap: the grid argument
    lvQueue,        \* computeLandValueMap: queue, every item ever pushed
    lvHead,         \* computeLandValueMap: head, 1-based
    lvVisited,      \* computeLandValueMap: the coordinates in the visited set
    lvDistMap,      \* computeLandValueMap: distMap
    lvMap,          \* computeLandValueMap: map, each element times F32_SCALE
    lvPc,           \* computeLandValueMap: "idle" | "start" | "bfs" | "done"
    ccType,         \* calculateBuildingCost: the type argument
    ccAt,           \* calculateBuildingCost: the arguments <<x, y>>
    ccCosts,        \* calculateBuildingCost: the values returned so far
    ccPc,           \* calculateBuildingCost: "idle" | "call" | "grow"
    gridRef,        \* App: gridRef.current
    statsRef,       \* App: statsRef.current
    pending,        \* App: the state updates queued since the last render
    raceLog         \* the state the handlers started from, and what each did

gameVars == <<grid, stats, quests, history, historyIndex, currentGoal, gameStarted,
              aiEnabled>>
pathVars == <<pfGrid, pfStart, pfEnd, openList, closedList, pfPc, pfResult>>
ghostVars == <<lastOp, steps, pushed, rewinds>>
landVars == <<lvGrid, lvQueue, lvHead, lvVisited, lvDistMap, lvMap, lvPc>>
costVars == <<ccType, ccAt, ccCosts, ccPc>>
raceVars == <<gridRef, statsRef, pending, raceLog>>
vars == <<variant, grid, stats, quests, history, historyIndex, currentGoal,
          gameStarted, aiEnabled, lastOp, steps, pushed, rewinds, pfGrid, pfStart,
          pfEnd, openList, closedList, pfPc, pfResult, lvGrid, lvQueue, lvHead,
          lvVisited, lvDistMap, lvMap, lvPc, ccType, ccAt, ccCosts, ccPc, gridRef,
          statsRef, pending, raceLog>>

-----------------------------------------------------------------------------
(* Bounds of the model *)

\* Side length of the modelled grid (GRID_SIZE is 20 or 60 in the source).
GRID_SIZE == 3
\* Operations per behaviour of the broad game specifications.
MaxSteps == 3
\* Clicks per behaviour of the deep history specification.
MaxDeepSteps == 26
\* Undos and redos per behaviour of the deep history specification.
MaxRewinds == 2

-----------------------------------------------------------------------------
(* Program constants *)

HISTORY_LIMIT == 20
HISTORY_INDEX_CAP == 19
INITIAL_MONEY_HOOK == 1000
MAX_LEVEL_HOOK == 5
WEALTH_TAX_THRESHOLD == 10000
LAND_VALUE_RADIUS == 10

DEFAULT_COLOR == "#f8fafc"

BuildingTypes ==
    {"None", "Residential", "Commercial", "Industrial", "Road", "Highway",
     "Park", "Police", "School"}

DecorationTypes ==
    {"None", "Flower", "Tree", "House", "Pond", "Butterfly", "Cloud"}

\* BUILDINGS of the hook's constants: scalingFactor is kept as a fraction.
BUILDINGS(type) ==
    CASE type = "None"        -> [baseCost |-> 0,   pop |-> 0, income |-> 0,  sfNum |-> 0,  sfDen |-> 1]
      [] type = "Residential" -> [baseCost |-> 100, pop |-> 4, income |-> 0,  sfNum |-> 11, sfDen |-> 10]
      [] type = "Commercial"  -> [baseCost |-> 200, pop |-> 0, income |-> 15, sfNum |-> 6,  sfDen |-> 5]
      [] type = "Industrial"  -> [baseCost |-> 300, pop |-> 0, income |-> 25, sfNum |-> 5,  sfDen |-> 4]
      [] type = "Road"        -> [baseCost |-> 50,  pop |-> 0, income |-> 0,  sfNum |-> 21, sfDen |-> 20]
      [] type = "Highway"     -> [baseCost |-> 150, pop |-> 0, income |-> 0,  sfNum |-> 11, sfDen |-> 10]
      [] type = "Park"        -> [baseCost |-> 150, pop |-> 0, income |-> 0,  sfNum |-> 23, sfDen |-> 20]
      [] type = "Police"      -> [baseCost |-> 500, pop |-> 0, income |-> 0,  sfNum |-> 3,  sfDen |-> 2]
      [] type = "School"      -> [baseCost |-> 400, pop |-> 0, income |-> 0,  sfNum |-> 7,  sfDen |-> 5]

-----------------------------------------------------------------------------
(* Arithmetic helpers *)

RECURSIVE Pow(_, _)
Pow(b, n) == IF n = 0 THEN 1 ELSE b * Pow(b, n - 1)

Abs(n) == IF n < 0 THEN -n ELSE n

Min(a, b) == IF a < b THEN a ELSE b

Max(a, b) == IF a > b THEN a ELSE b

RECURSIVE Gcd(_, _)
\* The greatest common divisor of a >= 0 and b >= 0.
Gcd(a, b) == IF b = 0 THEN a ELSE Gcd(b, a % b)

\* Math.round of the rational num/den (den > 0): nearest integer, ties upwards.
MathRound(num, den) == (2 * num + den) \div (2 * den)

\* The numerator alone, not divided.
MathFloorUndivided(num, den) == num

\* Math.floor of the rational num/den (den > 0).
MathFloor(num, den) == num \div den

\* The tiles of a grid in row-major order, as grid.flat() returns them.
Coords(N) == {<<x, y>> : x \in 0 .. N - 1, y \in 0 .. N - 1}

InBounds(x, y, N) == x >= 0 /\ x < N /\ y >= 0 /\ y < N

\* grid.flat().filter(t => t.buildingType === type).length
CountType(g, N, type) ==
    Cardinality({c \in Coords(N) : g[c[2]][c[1]].buildingType = type})

-----------------------------------------------------------------------------
(* Land value field: computeLandValueMap of services/analytics *)

\* Denominator of the stored land values: a Float32Array element v is kept
\* as the integer v * 2^27, which is exact for every value the map holds.
F32_SCALE == 134217728

RECURSIVE F32Exponent(_, _)
\* The p with 2^23 <= (t / 10) * 2^p < 2^24: the binary exponent of t/10.
F32Exponent(t, p) ==
    IF t * Pow(2, p) >= 10 * Pow(2, 23) THEN p ELSE F32Exponent(t, p + 1)

\* The Float32Array store of the double t/10 (t in 0..10): the nearest value
\* with a 24-bit significand, as a numerator over F32_SCALE.
Fround10(t) ==
    IF t = 0 THEN 0
    ELSE LET p == F32Exponent(t, 23)
             m == MathRound(t * Pow(2, p), 10)
         IN  m * Pow(2, 27 - p)

Idx(x, y, N) == y * N + x

\* The parks of the grid in scan order (y outer, x inner).
RECURSIVE ParkSources(_, _, _)
ParkSources(g, N, i) ==
    IF i >= N * N THEN <<>>
    ELSE LET x == i % N
             y == i \div N
         IN  (IF g[y][x].buildingType = "Park"
              THEN <<[x |-> x, y |-> y, dist |-> 0]>> ELSE <<>>)
             \o ParkSources(g, N, i + 1)

\* The neighbors array of lines 54-59, in its order.
LandNeighborsDiagonal(x, y) ==
    << <<x + 1, y>>, <<x - 1, y>>, <<x, y + 1>>, <<x, y - 1>>,
       <<x + 1, y + 1>>, <<x - 1, y - 1>>, <<x - 1, y + 1>>, <<x + 1, y - 1>> >>

LandNeighbors(x, y) ==
    << <<x + 1, y>>, <<x - 1, y>>, <<x, y + 1>>, <<x, y - 1>> >>

\* Lines 35-44: the locals before the loop.  b.queue keeps every item ever
\* pushed and b.head is the 1-based position of the next one to take.
BfsStart(g, N) ==
    LET sources == ParkSources(g, N, 0)
    IN  [queue   |-> sources,
         head    |-> 1,
         visited |-> {<<sources[i].x, sources[i].y>> : i \in 1 .. Len(sources)},
         distMap |-> [i \in 0 .. N * N - 1 |->
                        IF g[i \div N][i % N].buildingType = "Park"
                        THEN 0 ELSE 999]]

\* One pass of the while (head < queue.length) loop, lines 46-69.
BfsStep(b, N) ==
    LET cur == b.queue[b.head]
        idx == Idx(cur.x, cur.y, N)
        dm  == IF cur.dist < b.distMap[idx]
               THEN [b.distMap EXCEPT ![idx] = cur.dist] ELSE b.distMap
    IN  IF cur.dist >= LAND_VALUE_RADIUS
        THEN [b EXCEPT !.head = b.head + 1, !.distMap = dm]
        ELSE LET ok(c) == InBounds(c[1], c[2], N) /\ c \notin b.visited
                 fresh == SelectSeq(LandNeighbors(cur.x, cur.y), ok)
                 items == [i \in 1 .. Len(fresh) |->
                             [x |-> fresh[i][1], y |-> fresh[i][2],
                              dist |-> cur.dist + 1]]
             IN  [queue   |-> b.queue \o items,
                  head    |-> b.head + 1,
                  visited |-> b.visited \cup {fresh[i] : i \in 1 .. Len(fresh)},
                  distMap |-> dm]

RECURSIVE BfsLoop(_, _, _, _, _)
RECURSIVE BfsRest(_, _)
\* The loop from the locals b on.
BfsRest(b, N) == BfsLoop(b.queue, b.head, b.visited, b.distMap, N)

\* The while (head < queue.length) loop; head is 1-based here.
BfsLoop(queue, head, visited, distMap, N) ==
    IF head > Len(queue) THEN distMap
    ELSE BfsRest(BfsStep([queue |-> queue, head |-> head, visited |-> visited,
                          distMap |-> distMap], N), N)

\* The distance field the BFS leaves in distMap (999 where never reached).
LandDistMap(g, N) == BfsRest(BfsStart(g, N), N)

\* Lines 75-76: the element stored for the distance d.
LandValueOf(d) ==
    IF d > 10 THEN Fround10(1) ELSE Fround10(10 - d)

\* Lines 29-32 without map.fill(0.1): the zeroes of a new Float32Array.
LandFlatUnfilled(N) == [i \in 0 .. N * N - 1 |-> 0]

\* Lines 29-32: map.fill(0.1).
LandFlat(N) == [i \in 0 .. N * N - 1 |-> Fround10(1)]

\* Lines 73-77: the normalisation of a distance field.
LandNormalize(distMap, N) == [i \in 0 .. N * N - 1 |-> LandValueOf(distMap[i])]

\* The Float32Array the function returns, each element times F32_SCALE.
computeLandValueMap(g, N) ==
    IF CountType(g, N, "Park") = 0
    THEN LandFlat(N)
    ELSE LandNormalize(LandDistMap(g, N), N)

-----------------------------------------------------------------------------
(* The useGameState hook: src/hooks/useGameState.ts *)

createInitialGrid(N) ==
    [y \in 0 .. N - 1 |->
       [x \in 0 .. N - 1 |->
          [x |-> x, y |-> y, color |-> DEFAULT_COLOR, decoration |-> "None",
           buildingType |-> "None", level |-> 1]]]

\* INITIAL_QUESTS; title and description are opaque text and left out.
\* A quest without targetKey has none to match ("" matches no tile).
INITIAL_QUESTS ==
    << [id |-> "q1", targetValue |-> 3,    currentValue |-> 0, type |-> "build",
        targetKey |-> "Residential", rewardMoney |-> 500,  completed |-> FALSE],
       [id |-> "q2", targetValue |-> 2,    currentValue |-> 0, type |-> "build",
        targetKey |-> "Industrial",  rewardMoney |-> 800,  completed |-> FALSE],
       [id |-> "q3", targetValue |-> 20,   currentValue |-> 0, type |-> "population",
        targetKey |-> "",            rewardMoney |-> 1000, completed |-> FALSE],
       [id |-> "q4", targetValue |-> 1,    currentValue |-> 0, type |-> "build",
        targetKey |-> "Highway",     rewardMoney |-> 400,  completed |-> FALSE],
       [id |-> "q5", targetValue |-> 5000, currentValue |-> 0, type |-> "money",
        targetKey |-> "",            rewardMoney |-> 2000, completed |-> FALSE] >>

InitialStatsHook ==
    [population |-> 0, money |-> INITIAL_MONEY_HOOK, day |-> 1, happiness |-> 100]

\* Math.round(base * scalingFactor^n * (1 + landVal * 0.5) [* 1.25]) in exact
\* integer arithmetic.  Bn/Bd is base * scalingFactor^n and lv the stored land
\* value times F32_SCALE.  With t the nearest tenth of the land value and e its
\* float32 error (lv = (t * F32_SCALE + e) / 10 / F32_SCALE), the product is
\* M/D plus a correction of the sign of e, which is smaller than 1/(2 D) and
\* so decides the rounding only when M/D is exactly half-way.  M/D is
\* (Bn/Bd) * (20 + t)/20 [* 5/4] with the common factors cancelled before
\* the multiplications.
RoundCost(Bn, Bd, lv, wealthy) ==
    LET t   == (10 * lv + F32_SCALE \div 2) \div F32_SCALE
        e   == 10 * lv - t * F32_SCALE
        fn0 == (IF wealthy THEN 5 ELSE 1) * (20 + t)
        fd0 == (IF wealthy THEN 4 ELSE 1) * 20
        bn  == Bn \div Gcd(Bn, Bd)
        bd  == Bd \div Gcd(Bn, Bd)
        fn  == fn0 \div Gcd(fn0, fd0)
        fd  == fd0 \div Gcd(fn0, fd0)
        M   == (bn \div Gcd(bn, fd)) * (fn \div Gcd(fn, bd))
        D   == (bd \div Gcd(fn, bd)) * (fd \div Gcd(bn, fd))
        q   == M \div D
        r   == M % D
    IN  IF 2 * r > D THEN q + 1
        ELSE IF 2 * r < D THEN q
        ELSE IF e >= 0 THEN q + 1 ELSE q

\* calculateBuildingCost without the supply/demand scaling of lines 70-71.
calculateBuildingCostUnscaled(g, money, N, type, x, y) ==
    IF type = "None" THEN 0
    ELSE RoundCost(BUILDINGS(type).baseCost, 1,
                   computeLandValueMap(g, N)[Idx(x, y, N)],
                   money > WEALTH_TAX_THRESHOLD)

\* calculateBuildingCost, closed over grid, landValueMap and stats.money.
calculateBuildingCost(g, money, N, type, x, y) ==
    IF type = "None" THEN 0
    ELSE LET info          == BUILDINGS(type)
             existingCount == CountType(g, N, type)
             landVal       == computeLandValueMap(g, N)[Idx(x, y, N)]
         IN  RoundCost(info.baseCost * Pow(info.sfNum, existingCount),
                       Pow(info.sfDen, existingCount), landVal,
                       money > WEALTH_TAX_THRESHOLD)

\* JSON.parse(JSON.stringify(grid)): every tile is rebuilt from its own
\* enumerable fields (all are strings or finite numbers, which JSON keeps).
JsonCloneGrid(g) ==
    [y \in DOMAIN g |->
       [x \in DOMAIN g[y] |->
          [x |-> g[y][x].x, y |-> g[y][x].y, color |-> g[y][x].color,
           decoration |-> g[y][x].decoration,
           buildingType |-> g[y][x].buildingType, level |-> g[y][x].level]]]

JsonCloneQuests(qs) ==
    [i \in DOMAIN qs |->
       [id |-> qs[i].id, targetValue |-> qs[i].targetValue,
        currentValue |-> qs[i].currentValue, type |-> qs[i].type,
        targetKey |-> qs[i].targetKey, rewardMoney |-> qs[i].rewardMoney,
        completed |-> qs[i].completed]]

\* loadGame returning null, and a save written before quests were saved.
NoSave == [none |-> TRUE]
NoQuests == [none |-> TRUE]

\* What localStorage holds under the key of a slot: no entry (or the empty
\* string), text JSON.parse throws on (or "null", whose version cannot be
\* read), or the JSON text of an object with the given version and contents.
StoredAbsent == [kind |-> "absent", version |-> 0, data |-> NoSave]
StoredGarbage == [kind |-> "garbage", version |-> 0, data |-> NoSave]
StoredSave(version, data) == [kind |-> "json", version |-> version, data |-> data]

\* loadGame with any version taken for the current one.
loadGameAnyVersion(stored, N) ==
    IF stored.kind = "absent" THEN NoSave
    ELSE IF stored.kind = "garbage" THEN NoSave
    ELSE stored.data

\* loadGame(id) with `stored` the entry of the slot; N is GRID_SIZE.
loadGame(stored, N) ==
    IF stored.kind = "absent" THEN NoSave
    ELSE IF stored.kind = "garbage" THEN NoSave
    ELSE IF stored.version # N THEN NoSave
    ELSE stored.data

\* loadSlot(slotId) with `data` the result of loadGame(slotId).
loadSlot(s, N, data) ==
    IF data # NoSave
    THEN LET loadedQuests == IF data.quests # NoQuests
                             THEN data.quests ELSE INITIAL_QUESTS
         IN  [s EXCEPT !.grid = data.grid, !.stats = data.stats,
                       !.quests = loadedQuests,
                       !.history = <<[grid |-> data.grid, stats |-> data.stats,
                                      quests |-> loadedQuests]>>,
                       !.historyIndex = 0]
    ELSE [s EXCEPT !.grid = createInitialGrid(N), !.stats = InitialStatsHook,
                   !.quests = INITIAL_QUESTS,
                   !.history = <<[grid |-> createInitialGrid(N),
                                  stats |-> InitialStatsHook,
                                  quests |-> INITIAL_QUESTS]>>,
                   !.historyIndex = 0]

\* prev.slice(0, k) for k >= 0.
Slice(seq, k) == SubSeq(seq, 1, Min(k, Len(seq)))

\* addToHistory recording the stats of the render it was created in.
addToHistoryStaleStats(s, newGrid, newStats, newQuests) ==
    LET newState   == [grid |-> JsonCloneGrid(newGrid), stats |-> s.stats,
                       quests |-> JsonCloneQuests(newQuests)]
        newHistory == Append(Slice(s.history, s.historyIndex + 1), newState)
    IN  [history |-> IF Len(newHistory) > HISTORY_LIMIT
                     THEN Tail(newHistory) ELSE newHistory,
         historyIndex |-> Min(s.historyIndex + 1, HISTORY_INDEX_CAP)]

\* addToHistory without the eviction of the oldest entry.
addToHistoryKeepsAll(s, newGrid, newStats, newQuests) ==
    [history |-> Append(Slice(s.history, s.historyIndex + 1),
                        [grid |-> JsonCloneGrid(newGrid), stats |-> newStats,
                         quests |-> JsonCloneQuests(newQuests)]),
     historyIndex |-> Min(s.historyIndex + 1, HISTORY_INDEX_CAP)]

\* addToHistory pushing onto the whole previous history.
addToHistoryKeepsTail(s, newGrid, newStats, newQuests) ==
    LET newState   == [grid |-> JsonCloneGrid(newGrid), stats |-> newStats,
                       quests |-> JsonCloneQuests(newQuests)]
        newHistory == Append(s.history, newState)
    IN  [history |-> IF Len(newHistory) > HISTORY_LIMIT
                     THEN Tail(newHistory) ELSE newHistory,
         historyIndex |-> Min(s.historyIndex + 1, HISTORY_INDEX_CAP)]

\* addToHistory: the new history and cursor.
addToHistory(s, newGrid, newStats, newQuests) ==
    LET newState   == [grid |-> JsonCloneGrid(newGrid), stats |-> newStats,
                       quests |-> JsonCloneQuests(newQuests)]
        newHistory == Append(Slice(s.history, s.historyIndex + 1), newState)
    IN  [history |-> IF Len(newHistory) > HISTORY_LIMIT
                     THEN Tail(newHistory) ELSE newHistory,
         historyIndex |-> Min(s.historyIndex + 1, HISTORY_INDEX_CAP)]

\* handleUndo with the guard `historyIndex >= 0` and the index clamped.
handleUndoOffByOne(s) ==
    IF s.historyIndex >= 0
    THEN LET prev == s.history[Max(s.historyIndex - 1, 0) + 1]
         IN  [s EXCEPT !.grid = prev.grid, !.stats = prev.stats,
                       !.quests = prev.quests,
                       !.historyIndex = s.historyIndex - 1]
    ELSE s

handleUndo(s) ==
    IF s.historyIndex > 0
    THEN LET prev == s.history[s.historyIndex]   \* history[historyIndex - 1]
         IN  [s EXCEPT !.grid = prev.grid, !.stats = prev.stats,
                       !.quests = prev.quests,
                       !.historyIndex = s.historyIndex - 1]
    ELSE s

\* handleRedo without setStats(next.stats).
handleRedoKeepsStats(s) ==
    IF s.historyIndex < Len(s.history) - 1
    THEN LET next == s.history[s.historyIndex + 2]
         IN  [s EXCEPT !.grid = next.grid, !.quests = next.quests,
                       !.historyIndex = s.historyIndex + 1]
    ELSE s

handleRedo(s) ==
    IF s.historyIndex < Len(s.history) - 1
    THEN LET next == s.history[s.historyIndex + 2]   \* history[historyIndex + 1]
         IN  [s EXCEPT !.grid = next.grid, !.stats = next.stats,
                       !.quests = next.quests,
                       !.historyIndex = s.historyIndex + 1]
    ELSE s

\* The value a quest measures (currentVal of updateQuests).
QuestCurrentVal(q, newGrid, newStats, N) ==
    CASE q.type = "build"      -> CountType(newGrid, N, q.targetKey)
      [] q.type = "population" -> newStats.population
      [] q.type = "money"      -> newStats.money
      [] OTHER                 -> 0

RECURSIVE EarnedMoneyAgain(_, _, _, _, _)
\* earnedMoney with the reward of a met quest paid on every evaluation.
EarnedMoneyAgain(qs, i, newGrid, newStats, N) ==
    IF i > Len(qs) THEN 0
    ELSE (IF QuestCurrentVal(qs[i], newGrid, newStats, N) >= qs[i].targetValue
          THEN qs[i].rewardMoney ELSE 0)
         + EarnedMoneyAgain(qs, i + 1, newGrid, newStats, N)

RECURSIVE EarnedMoney(_, _, _, _, _)
\* earnedMoney: the rewards of the quests that complete in this evaluation.
EarnedMoney(qs, i, newGrid, newStats, N) ==
    IF i > Len(qs) THEN 0
    ELSE (IF ~qs[i].completed
             /\ QuestCurrentVal(qs[i], newGrid, newStats, N) >= qs[i].targetValue
          THEN qs[i].rewardMoney ELSE 0)
         + EarnedMoney(qs, i + 1, newGrid, newStats, N)

\* updateQuests without `if (q.completed) return q`: every quest is measured
\* again.
updateQuestsReevaluates(qs, newGrid, newStats, N) ==
    [quests |-> [i \in DOMAIN qs |->
                   [qs[i] EXCEPT
                      !.currentValue = QuestCurrentVal(qs[i], newGrid, newStats, N),
                      !.completed = QuestCurrentVal(qs[i], newGrid, newStats, N)
                                       >= qs[i].targetValue]],
     stats  |-> newStats]

\* updateQuests: the next quests, and newStats after `newStats.money += earned`.
updateQuests(qs, newGrid, newStats, N) ==
    LET nextQuests ==
            [i \in DOMAIN qs |->
               IF qs[i].completed THEN qs[i]
               ELSE LET currentVal == QuestCurrentVal(qs[i], newGrid, newStats, N)
                    IN  [qs[i] EXCEPT !.currentValue = currentVal,
                                      !.completed = currentVal >= qs[i].targetValue]]
        earnedMoney == EarnedMoney(qs, 1, newGrid, newStats, N)
    IN  [quests |-> nextQuests,
         stats  |-> IF earnedMoney > 0
                    THEN [newStats EXCEPT !.money = newStats.money + earnedMoney]
                    ELSE newStats]

\* newPop of handleTileClick: Math.floor(info.pop * (1 + (level - 1) * 0.75))
\* summed over the occupied tiles (0.75 = 3/4 is exact in binary).
\* The inhabitants of a tile with the level multiplier left out.
TilePopFlat(t) == BUILDINGS(t.buildingType).pop

TilePop(t) ==
    IF t.buildingType # "None"
    THEN MathFloor(BUILDINGS(t.buildingType).pop * (4 + 3 * (t.level - 1)), 4)
    ELSE 0

RECURSIVE SumTilePop(_, _)
SumTilePop(g, cs) ==
    IF cs = {} THEN 0
    ELSE LET c == CHOOSE c \in cs : TRUE
         IN  TilePop(g[c[2]][c[1]]) + SumTilePop(g, cs \ {c})

PopulationOf(g, N) == SumTilePop(g, Coords(N))

\* The funds test with only an empty treasury refusing a purchase.
CanAffordOnCredit(money, price) == money > 0

\* The funds test satisfied by half the price.
CanAffordHalf(money, price) == 2 * money >= price

\* newStats.money >= cost, and newStats.money >= upgradeCost.
CanAfford(money, price) == money >= price

\* An upgrade at the price of a new building, whatever the level.
UpgradeCostFlat(cost, level) == cost

\* Math.round(cost * (1 + tile.level * 0.8))
UpgradeCost(cost, level) == MathRound(cost * (5 + 4 * level), 5)

\* The building and decoration branches of the setGrid updater of
\* handleTileClick, for the clicked tile: the tile and newStats they leave, the
\* updated flag and the branch taken.  `cost` is calculateBuildingCost of the
\* tile's kind (bulldozer) or of the tool.
TileBranch(tile, newStats, activeCategory, selectedTool, selectedColor, cost) ==
    IF activeCategory = "building"
    THEN IF selectedTool = "None"
         THEN IF tile.buildingType # "None"
              THEN [tile |-> [tile EXCEPT !.buildingType = "None", !.level = 1],
                    stats |-> [newStats EXCEPT
                                 !.money = @ + MathFloor(cost * 3, 10)],
                    updated |-> TRUE, outcome |-> "demolished"]
              ELSE [tile |-> tile, stats |-> newStats, updated |-> FALSE,
                    outcome |-> "nothing"]
         ELSE IF tile.buildingType = "None"
              THEN IF CanAfford(newStats.money, cost)
                   THEN [tile |-> [tile EXCEPT !.buildingType = selectedTool,
                                               !.decoration = "None", !.level = 1],
                         stats |-> [newStats EXCEPT !.money = @ - cost],
                         updated |-> TRUE, outcome |-> "placed"]
                   ELSE [tile |-> tile, stats |-> newStats, updated |-> FALSE,
                         outcome |-> "insufficient"]
              ELSE IF tile.buildingType = selectedTool
                   THEN IF /\ tile.level < MAX_LEVEL_HOOK
                           /\ CanAfford(newStats.money, UpgradeCost(cost, tile.level))
                        THEN [tile |-> [tile EXCEPT !.level = @ + 1],
                              stats |-> [newStats EXCEPT !.money =
                                           @ - UpgradeCost(cost, tile.level)],
                              updated |-> TRUE, outcome |-> "upgraded"]
                        ELSE [tile |-> tile, stats |-> newStats, updated |-> FALSE,
                              outcome |-> IF tile.level < MAX_LEVEL_HOOK
                                          THEN "insufficient" ELSE "maxlevel"]
                   ELSE [tile |-> tile, stats |-> newStats, updated |-> FALSE,
                         outcome |-> "occupied"]
    ELSE IF selectedTool = "None"
         THEN IF tile.decoration # "None" \/ tile.color # DEFAULT_COLOR
              THEN [tile |-> [tile EXCEPT !.decoration = "None",
                                          !.color = DEFAULT_COLOR],
                    stats |-> newStats, updated |-> TRUE, outcome |-> "cleared"]
              ELSE [tile |-> tile, stats |-> newStats, updated |-> FALSE,
                    outcome |-> "nothing"]
         ELSE [tile |-> [tile EXCEPT !.color = selectedColor,
                                     !.decoration = IF selectedTool \in DecorationTypes
                                                    THEN selectedTool ELSE @],
               stats |-> newStats, updated |-> TRUE, outcome |-> "decorated"]

\* An updater that only upgrades, free of charge and without the level cap.
TileClickEffectNoCap(s, N, x, y, activeCategory, selectedTool, selectedColor) ==
    IF /\ activeCategory = "building"
       /\ selectedTool # "None"
       /\ s.grid[y][x].buildingType = selectedTool
    THEN [tile |-> [s.grid[y][x] EXCEPT !.level = @ + 1], stats |-> s.stats,
          updated |-> TRUE, outcome |-> "upgraded"]
    ELSE [tile |-> s.grid[y][x], stats |-> s.stats, updated |-> FALSE,
          outcome |-> "nothing"]

\* The updater up to `if (updated)`, for an in-bounds click.
TileClickEffect(s, N, x, y, activeCategory, selectedTool, selectedColor) ==
    TileBranch(s.grid[y][x], s.stats, activeCategory, selectedTool, selectedColor,
               IF activeCategory = "building"
               THEN calculateBuildingCost(s.grid, s.stats.money, N,
                                          IF selectedTool = "None"
                                          THEN s.grid[y][x].buildingType
                                          ELSE selectedTool, x, y)
               ELSE 0)

\* The tail of the `if (updated)` block: setStats, setQuests, addToHistory,
\* return nextGrid.
CommitHistory(s, nextGrid, uq, h) ==
    [s EXCEPT !.grid = nextGrid, !.stats = uq.stats, !.quests = uq.quests,
              !.history = h.history, !.historyIndex = h.historyIndex]

CommitQuests(s, nextGrid, uq) ==
    CommitHistory(s, nextGrid, uq, addToHistory(s, nextGrid, uq.stats, uq.quests))

\* The `if (updated)` block: the population is recounted from nextGrid and the
\* quests are evaluated on the result.
CommitUpdate(s, N, nextGrid, newStats) ==
    CommitQuests(s, nextGrid,
                 updateQuests(s.quests, nextGrid,
                              [newStats EXCEPT !.population = PopulationOf(nextGrid, N)],
                              N))

\* The click with the `if (updated)` test left out.
ApplyEffectAlways(s, N, x, y, eff) ==
    [state   |-> CommitUpdate(s, N, [s.grid EXCEPT ![y][x] = eff.tile], eff.stats),
     outcome |-> eff.outcome]

\* The click as a whole: the state it leaves and the branch it took ("oob" is
\* the early return on a coordinate outside the grid).
ApplyEffect(s, N, x, y, eff) ==
    [state   |-> IF eff.updated
                 THEN CommitUpdate(s, N, [s.grid EXCEPT ![y][x] = eff.tile], eff.stats)
                 ELSE s,
     outcome |-> eff.outcome]

TileClick(s, N, x, y, activeCategory, selectedTool, selectedColor) ==
    IF x < 0 \/ x >= N \/ y < 0 \/ y >= N
    THEN [state |-> s, outcome |-> "oob"]
    ELSE ApplyEffect(s, N, x, y,
                     TileClickEffect(s, N, x, y, activeCategory, selectedTool,
                                     selectedColor))

\* handleTileClick: the state after the click.
handleTileClick(s, N, x, y, activeCategory, selectedTool, selectedColor) ==
    TileClick(s, N, x, y, activeCategory, selectedTool, selectedColor).state

-----------------------------------------------------------------------------
(* The App component: src/App.tsx *)

NoGoal == [none |-> TRUE]

\* BUILDINGS of the App's constants (it has no Highway entry).
APP_BUILDINGS(type) ==
    CASE type = "None"        -> [cost |-> 0,   popGen |-> 0, incomeGen |-> 0]
      [] type = "Road"        -> [cost |-> 10,  popGen |-> 0, incomeGen |-> 0]
      [] type = "Residential" -> [cost |-> 100, popGen |-> 5, incomeGen |-> 0]
      [] type = "Commercial"  -> [cost |-> 200, popGen |-> 0, incomeGen |-> 15]
      [] type = "Industrial"  -> [cost |-> 400, popGen |-> 0, incomeGen |-> 40]
      [] type = "Park"        -> [cost |-> 50,  popGen |-> 1, incomeGen |-> 0]
      [] type = "Police"      -> [cost |-> 500, popGen |-> 0, incomeGen |-> -10]
      [] type = "School"      -> [cost |-> 800, popGen |-> 2, incomeGen |-> -20]

INITIAL_MONEY == 5000
DEMOLISH_COST == 5
MAX_LEVEL_TICK == 3
POP_PER_RESIDENTIAL == 50
POP_DECAY == 5
UPGRADE_BONUS == 10

\* The App's createInitialGrid: tiles carry no level until something is built
\* (level 0 stands for the absent field: `tile.level || 1` reads both as 1).
AppCreateInitialGrid(N) ==
    [y \in 0 .. N - 1 |->
       [x \in 0 .. N - 1 |-> [x |-> x, y |-> y, buildingType |-> "None", level |-> 0]]]

InitialStatsApp == [money |-> INITIAL_MONEY, population |-> 0, day |-> 1]

\* tile.level || 1
LevelOr1(t) == IF t.level = 0 THEN 1 ELSE t.level

pushHistory(a, newGrid, newStats) ==
    LET newHistory == Append(Slice(a.history, a.historyIndex + 1),
                             [grid |-> newGrid, stats |-> newStats])
        kept       == IF Len(newHistory) > HISTORY_LIMIT
                      THEN Tail(newHistory) ELSE newHistory
    IN  [history |-> kept, historyIndex |-> Len(kept) - 1]

performUndo(a) ==
    IF a.historyIndex > 0
    THEN LET prev == a.history[a.historyIndex]
         IN  [a EXCEPT !.grid = prev.grid, !.stats = prev.stats,
                       !.historyIndex = a.historyIndex - 1]
    ELSE a

performRedo(a) ==
    IF a.historyIndex < Len(a.history) - 1
    THEN LET next == a.history[a.historyIndex + 2]
         IN  [a EXCEPT !.grid = next.grid, !.stats = next.stats,
                       !.historyIndex = a.historyIndex + 1]
    ELSE a

\* handleStart(slotId, enabled) with `saved` the result of loadGame(slotId)
\* (NoSave for null).  The goal a fresh start fetches arrives later.
handleStart(a, N, enabled, saved) ==
    IF saved # NoSave
    THEN [a EXCEPT !.aiEnabled = enabled, !.grid = saved.grid, !.stats = saved.stats,
                   !.currentGoal = saved.goal,
                   !.history = <<[grid |-> saved.grid, stats |-> saved.stats]>>,
                   !.historyIndex = 0, !.gameStarted = TRUE]
    ELSE LET initialGrid  == AppCreateInitialGrid(N)
             initialStats == InitialStatsApp
         IN  [a EXCEPT !.aiEnabled = enabled, !.grid = initialGrid,
                       !.stats = initialStats,
                       !.history = <<[grid |-> initialGrid, stats |-> initialStats]>>,
                       !.historyIndex = 0, !.gameStarted = TRUE]

\* A tick that adds the day's growth to the population and stops there.
tickWithoutCap(a, N, lucky) ==
    [a EXCEPT !.stats =
       [money |-> a.stats.money, day |-> a.stats.day + 1,
        population |-> a.stats.population
                       + 5 * CountType(a.grid, N, "Residential")
                       + CountType(a.grid, N, "Park")
                       + 2 * CountType(a.grid, N, "School")]]

RECURSIVE SumGenNoUpkeep(_, _, _)
\* The sum with the negative entries of the catalog taken for nothing.
SumGenNoUpkeep(g, cs, field) ==
    IF cs = {} THEN 0
    ELSE LET c == CHOOSE c \in cs : TRUE
             t == g[c[2]][c[1]]
         IN  (IF t.buildingType # "None"
              THEN Max(0, APP_BUILDINGS(t.buildingType)[field]) ELSE 0)
             + SumGenNoUpkeep(g, cs \ {c}, field)

RECURSIVE SumGen(_, _, _)
\* The sum of BUILDINGS[tile.buildingType][field] over the occupied tiles cs.
SumGen(g, cs, field) ==
    IF cs = {} THEN 0
    ELSE LET c == CHOOSE c \in cs : TRUE
             t == g[c[2]][c[1]]
         IN  (IF t.buildingType # "None"
              THEN APP_BUILDINGS(t.buildingType)[field] ELSE 0)
             + SumGen(g, cs \ {c}, field)

\* The residential tiles a tick may upgrade: level below 3 and a land value,
\* read from the Float32Array, above the double 0.8.
TickEligible(g, N) ==
    LET landValueMap == computeLandValueMap(g, N)
    IN  {c \in Coords(N) :
           /\ g[c[2]][c[1]].buildingType = "Residential"
           /\ LevelOr1(g[c[2]][c[1]]) < MAX_LEVEL_TICK
           /\ 10 * landValueMap[Idx(c[1], c[2], N)] > 8 * F32_SCALE}

\* Whether the tick finds the goal met (isMet).
GoalIsMet(goal, newStats, g, N) ==
    \/ goal.targetType = "money" /\ newStats.money >= goal.targetValue
    \/ goal.targetType = "population" /\ newStats.population >= goal.targetValue
    \/ /\ goal.targetType = "building_count"
       /\ goal.buildingType # ""
       /\ (IF goal.buildingType = "None" THEN 0
           ELSE CountType(g, N, goal.buildingType)) >= goal.targetValue

\* One run of the setInterval callback.  `lucky` holds the tiles whose
\* Math.random() draw is below 0.05.
tick(a, N, lucky) ==
    LET g              == a.grid
        upgraded       == TickEligible(g, N) \cap lucky
        dailyIncome    == SumGen(g, Coords(N), "incomeGen")
                          + UPGRADE_BONUS * Cardinality(upgraded)
        dailyPopGrowth == SumGen(g, Coords(N), "popGen")
        resCount       == CountType(g, N, "Residential")
        maxPop         == resCount * POP_PER_RESIDENTIAL
        newGrid        == [y \in 0 .. N - 1 |-> [x \in 0 .. N - 1 |->
                             IF <<x, y>> \in upgraded
                             THEN [g[y][x] EXCEPT !.level = LevelOr1(g[y][x]) + 1]
                             ELSE g[y][x]]]
        prev           == a.stats
        grown          == prev.population + dailyPopGrowth
        capped         == IF grown > maxPop THEN maxPop ELSE grown
        newPop         == IF resCount = 0 /\ prev.population > 0
                          THEN Max(0, prev.population - POP_DECAY) ELSE capped
        newStats       == [money |-> prev.money + dailyIncome,
                           population |-> newPop, day |-> prev.day + 1]
        goal           == a.currentGoal
    IN  [a EXCEPT
           !.grid = IF upgraded # {} THEN newGrid ELSE g,
           !.stats = newStats,
           !.currentGoal =
               IF a.aiEnabled /\ goal # NoGoal /\ ~goal.completed
                  /\ GoalIsMet(goal, newStats, g, N)
               THEN [goal EXCEPT !.completed = TRUE] ELSE goal]

\* The branch the App's handleTileClick takes.
AppTileClickOutcome(a, N, x, y, tool) ==
    IF ~a.gameStarted THEN "notstarted"
    ELSE IF x < 0 \/ x >= N \/ y < 0 \/ y >= N THEN "oob"
    ELSE LET currentTile == a.grid[y][x]
         IN  IF tool = "None"
             THEN IF currentTile.buildingType # "None"
                  THEN IF a.stats.money >= DEMOLISH_COST
                       THEN "demolished" ELSE "insufficient"
                  ELSE "nothing"
             ELSE IF currentTile.buildingType = "None"
                  THEN IF a.stats.money >= APP_BUILDINGS(tool).cost
                       THEN "placed" ELSE "insufficient"
                  ELSE "occupied"

\* The App's handleTileClick(x, y) with selectedTool = tool; gridRef and
\* statsRef hold the rendered grid and stats.
AppHandleTileClick(a, N, x, y, tool) ==
    LET outcome == AppTileClickOutcome(a, N, x, y, tool)
    IN  IF outcome = "demolished"
        THEN LET newGrid  == [a.grid EXCEPT ![y][x] =
                                [@ EXCEPT !.buildingType = "None", !.level = 1]]
                 newStats == [a.stats EXCEPT !.money = @ - DEMOLISH_COST]
                 h        == pushHistory(a, newGrid, newStats)
             IN  [a EXCEPT !.grid = newGrid, !.stats = newStats,
                           !.history = h.history, !.historyIndex = h.historyIndex]
        ELSE IF outcome = "placed"
        THEN LET newStats == [a.stats EXCEPT !.money = @ - APP_BUILDINGS(tool).cost]
                 newGrid  == [a.grid EXCEPT ![y][x] =
                                [@ EXCEPT !.buildingType = tool, !.level = 1]]
                 h        == pushHistory(a, newGrid, newStats)
             IN  [a EXCEPT !.grid = newGrid, !.stats = newStats,
                           !.history = h.history, !.historyIndex = h.historyIndex]
        ELSE a

\* The click as a whole: the state it leaves and the branch it took.
AppTileClick(a, N, x, y, tool) ==
    [state   |-> AppHandleTileClick(a, N, x, y, tool),
     outcome |-> AppTileClickOutcome(a, N, x, y, tool)]

\* handleClaimReward without the test of currentGoal.completed.
handleClaimRewardUnchecked(a) ==
    IF a.currentGoal # NoGoal
    THEN [a EXCEPT !.stats = [@ EXCEPT !.money = @ + a.currentGoal.reward],
                   !.currentGoal = NoGoal]
    ELSE a

handleClaimReward(a) ==
    IF a.currentGoal # NoGoal /\ a.currentGoal.completed
    THEN [a EXCEPT !.stats = [@ EXCEPT !.money = @ + a.currentGoal.reward],
                   !.currentGoal = NoGoal]
    ELSE a

-----------------------------------------------------------------------------
(* The path planner: findPath of src/services/pathfinding.ts *)

NoPath == <<"null">>

\* isWalkable with a shop taken for a tile an agent can cross.
IsWalkableLax(tile) ==
    \/ tile.buildingType = "None"
    \/ tile.buildingType = "Road"
    \/ tile.buildingType = "Highway"
    \/ tile.buildingType = "Park"
    \/ tile.buildingType = "Commercial"

\* isWalkable of the obstacle detection (also walkableTiles of PopulationSystem).
IsWalkable(tile) ==
    \/ tile.buildingType = "None"
    \/ tile.buildingType = "Road"
    \/ tile.buildingType = "Highway"
    \/ tile.buildingType = "Park"

PfHeight(g) == Cardinality(DOMAIN g)      \* grid.length
PfWidth(g) == Cardinality(DOMAIN g[0])    \* grid[0].length

\* Math.abs(a.x - end.x) + Math.abs(a.y - end.y)
Heuristic(x, y, end) == Abs(x - end[1]) + Abs(y - end[2])

\* startNode; a node keeps the chain of its ancestors, oldest first, in place
\* of the parent pointer (a parent is a node already taken off the open list,
\* which is never written again).
StartNode(start, end) ==
    [x |-> start[1], y |-> start[2], g |-> 0,
     h |-> Heuristic(start[1], start[2], end),
     f |-> Heuristic(start[1], start[2], end), chain |-> <<>>]

RECURSIVE MinFIndexReversed(_, _, _)
\* The for loop with its comparison turned round: the first node of greatest f.
MinFIndexReversed(open, i, currentIndex) ==
    IF i > Len(open) THEN currentIndex
    ELSE MinFIndexReversed(open, i + 1,
                           IF open[i].f > open[currentIndex].f THEN i ELSE currentIndex)

RECURSIVE MinFIndex(_, _, _)
\* The for loop choosing currentIndex: the first node of least f.
MinFIndex(open, i, currentIndex) ==
    IF i > Len(open) THEN currentIndex
    ELSE MinFIndex(open, i + 1,
                   IF open[i].f < open[currentIndex].f THEN i ELSE currentIndex)

\* openList.splice(index, 1): the list without that element.
Splice(open, index) == SubSeq(open, 1, index - 1) \o SubSeq(open, index + 1, Len(open))

\* A find that never sees the node: every neighbour is pushed anew.
FindInOpenNever(open, x, y) == 0

\* openList.find(n => n.x === x && n.y === y): the first such index, or 0.
FindInOpen(open, x, y) ==
    IF \E i \in 1 .. Len(open) : open[i].x = x /\ open[i].y = y
    THEN CHOOSE i \in 1 .. Len(open) :
            /\ open[i].x = x /\ open[i].y = y
            /\ \A j \in 1 .. i - 1 : ~(open[j].x = x /\ open[j].y = y)
    ELSE 0

\* The body of the neighbour loop without `if (!isWalkable) continue`.
VisitNeighborNoObstacle(open, closed, g, end, currentNode, nb) ==
    IF \/ nb[1] < 0 \/ nb[1] >= Cardinality(DOMAIN g[0])
       \/ nb[2] < 0 \/ nb[2] >= Cardinality(DOMAIN g)
       \/ nb \in closed
    THEN open
    ELSE IF \E i \in 1 .. Len(open) : open[i].x = nb[1] /\ open[i].y = nb[2]
    THEN open
    ELSE Append(open, [x |-> nb[1], y |-> nb[2], g |-> currentNode.g + 1,
                       h |-> Abs(nb[1] - end[1]) + Abs(nb[2] - end[2]),
                       f |-> currentNode.g + 1
                             + Abs(nb[1] - end[1]) + Abs(nb[2] - end[2]),
                       chain |-> Append(currentNode.chain,
                                        <<currentNode.x, currentNode.y>>)])

\* The body of `for (const neighbor of neighbors)` for one neighbour.
VisitNeighbor(open, closed, g, end, currentNode, nb) ==
    IF \/ nb[1] < 0 \/ nb[1] >= PfWidth(g)
       \/ nb[2] < 0 \/ nb[2] >= PfHeight(g)
       \/ nb \in closed
    THEN open
    ELSE IF ~IsWalkable(g[nb[2]][nb[1]]) THEN open
    ELSE LET gScore == currentNode.g + 1
             k      == FindInOpen(open, nb[1], nb[2])
             chain  == Append(currentNode.chain, <<currentNode.x, currentNode.y>>)
         IN  IF k = 0
             THEN Append(open, [x |-> nb[1], y |-> nb[2], g |-> gScore,
                                h |-> Heuristic(nb[1], nb[2], end),
                                f |-> gScore + Heuristic(nb[1], nb[2], end),
                                chain |-> chain])
             ELSE IF gScore < open[k].g
             THEN [open EXCEPT ![k] = [@ EXCEPT !.g = gScore,
                                                !.f = gScore + open[k].h,
                                                !.chain = chain]]
             ELSE open

RECURSIVE VisitNeighbors(_, _, _, _, _, _, _)
VisitNeighbors(open, closed, g, end, currentNode, nbs, i) ==
    IF i > Len(nbs) THEN open
    ELSE VisitNeighbors(VisitNeighbor(open, closed, g, end, currentNode, nbs[i]),
                        closed, g, end, currentNode, nbs, i + 1)

Neighbors(n) ==
    << <<n.x + 1, n.y>>, <<n.x - 1, n.y>>, <<n.x, n.y + 1>>, <<n.x, n.y - 1>> >>

\* One pass of `while (openList.length > 0)`, or the `return null` after it.
\* p is [open, closed, pc, result]; the result is a record of the same shape.
FindPathStep(p, g, end) ==
    IF Len(p.open) = 0
    THEN [p EXCEPT !.pc = "done", !.result = NoPath]
    ELSE LET currentIndex == MinFIndex(p.open, 2, 1)
             currentNode  == p.open[currentIndex]
             rest         == Splice(p.open, currentIndex)
         IN  IF currentNode.x = end[1] /\ currentNode.y = end[2]
             THEN [p EXCEPT !.open = rest, !.pc = "done",
                            !.result = Append(currentNode.chain,
                                              <<currentNode.x, currentNode.y>>)]
             ELSE LET closed == p.closed \cup {<<currentNode.x, currentNode.y>>}
                  IN  [p EXCEPT !.closed = closed,
                                !.open = VisitNeighbors(rest, closed, g, end, currentNode,
                                                        Neighbors(currentNode), 1)]

-----------------------------------------------------------------------------
(* Inputs the environment offers *)

\* Clicked coordinates: two tiles of the grid, and one coordinate beyond each
\* of its four edges.
ClickPairs ==
    {<<0, 0>>, <<1, 0>>, <<-1, 0>>, <<GRID_SIZE, 0>>, <<0, -1>>, <<0, GRID_SIZE>>}

HookTools == {"None", "Residential", "Highway", "Park", "Police"}
HookDecorTools == {"None", "Flower"}
HookColors == {"#FFADAD"}

\* Saves loadGame may return to loadSlot: a village of one house saved before
\* quests were part of a save, and a town whose first quest is under way.
SaveVillage ==
    [grid   |-> [createInitialGrid(GRID_SIZE) EXCEPT
                   ![0][0] = [@ EXCEPT !.buildingType = "Residential"]],
     stats  |-> [population |-> 4, money |-> 400, day |-> 1, happiness |-> 100],
     quests |-> NoQuests]

SaveHamlet ==
    [grid   |-> [createInitialGrid(GRID_SIZE) EXCEPT
                   ![0][1] = [@ EXCEPT !.buildingType = "Police"]],
     stats  |-> [population |-> 0, money |-> 475, day |-> 1, happiness |-> 100],
     quests |-> [INITIAL_QUESTS EXCEPT ![1] = [@ EXCEPT !.currentValue = 1]]]

HookSaves == {NoSave, SaveVillage, SaveHamlet}

\* Entries loadSlot may find: none, unreadable text, the saves above written
\* by this build, and the village written by a build with a larger grid.
HookStored ==
    {StoredAbsent, StoredGarbage, StoredSave(GRID_SIZE + 1, SaveVillage)}
    \cup {StoredSave(GRID_SIZE, data) : data \in HookSaves \ {NoSave}}

AppTools == {"None", "Residential", "Park", "Police"}

\* Goals generateCityGoal may return (the text fields are left out).
AppGoals ==
    { [targetType |-> "money", targetValue |-> 4900, buildingType |-> "",
       reward |-> 200, completed |-> FALSE],
      [targetType |-> "building_count", targetValue |-> 1,
       buildingType |-> "Residential", reward |-> 100, completed |-> FALSE] }

\* Saves loadGame may return to handleStart: a town of one house beside a park
\* saved on day 1, and a city whose police station has used up the treasury
\* since its goal was met, the reward still unclaimed.
SaveTown ==
    [grid  |-> [AppCreateInitialGrid(GRID_SIZE) EXCEPT
                  ![0][0] = [@ EXCEPT !.buildingType = "Residential", !.level = 1],
                  ![0][1] = [@ EXCEPT !.buildingType = "Park", !.level = 1]],
     stats |-> [money |-> 4850, population |-> 0, day |-> 1],
     goal  |-> NoGoal]

SaveBroke ==
    [grid  |-> [AppCreateInitialGrid(GRID_SIZE) EXCEPT
                  ![0][0] = [@ EXCEPT !.buildingType = "Police", !.level = 1]],
     stats |-> [money |-> 0, population |-> 0, day |-> 451],
     goal  |-> [targetType |-> "money", targetValue |-> 4900, buildingType |-> "",
                reward |-> 200, completed |-> TRUE]]

\* A town whose last house has been torn down while people still lived there.
SaveGhostTown ==
    [grid  |-> AppCreateInitialGrid(GRID_SIZE),
     stats |-> [money |-> 3000, population |-> 7, day |-> 30],
     goal  |-> NoGoal]

AppSaves == {NoSave, SaveTown, SaveBroke, SaveGhostTown}

-----------------------------------------------------------------------------
(* The state machine *)

\* The React state of the component, as one record.
St ==
    [grid |-> grid, stats |-> stats, quests |-> quests, history |-> history,
     historyIndex |-> historyIndex, currentGoal |-> currentGoal,
     gameStarted |-> gameStarted, aiEnabled |-> aiEnabled]

\* The next render shows state r.
Becomes(r) ==
    /\ grid' = r.grid
    /\ stats' = r.stats
    /\ quests' = r.quests
    /\ history' = r.history
    /\ historyIndex' = r.historyIndex
    /\ currentGoal' = r.currentGoal
    /\ gameStarted' = r.gameStarted
    /\ aiEnabled' = r.aiEnabled

PathIdle ==
    /\ pfGrid = <<>>
    /\ pfStart = <<0, 0>>
    /\ pfEnd = <<0, 0>>
    /\ openList = <<>>
    /\ closedList = {}
    /\ pfPc = "idle"
    /\ pfResult = NoPath

\* No call of computeLandValueMap is being followed.
LandIdle ==
    /\ lvGrid = <<>>
    /\ lvQueue = <<>>
    /\ lvHead = 1
    /\ lvVisited = {}
    /\ lvDistMap = <<>>
    /\ lvMap = <<>>
    /\ lvPc = "idle"

\* No series of calculateBuildingCost calls is being followed.
CostIdle ==
    /\ ccType = "None"
    /\ ccAt = <<0, 0>>
    /\ ccCosts = <<>>
    /\ ccPc = "idle"

\* The refs and the update queue are not followed: every handler is taken
\* together with the render that shows its result.
RaceIdle ==
    /\ gridRef = <<>>
    /\ statsRef = <<>>
    /\ pending = <<>>
    /\ raceLog = <<>>

\* An operation other than a click, and a click with its arguments, as lastOp
\* records them.
Op(op, outcome) ==
    [op |-> op, outcome |-> outcome, x |-> 0, y |-> 0, category |-> "", tool |-> "",
     stored |-> StoredAbsent]

ClickOp(outcome, x, y, category, tool) ==
    [op |-> "click", outcome |-> outcome, x |-> x, y |-> y, category |-> category,
     tool |-> tool, stored |-> StoredAbsent]

\* A loadSlot with the entry it found in localStorage.
LoadOp(outcome, stored) == [Op("load", outcome) EXCEPT !.stored = stored]

\* The click branches that end in addToHistory / pushHistory.
PushOutcomes == {"demolished", "placed", "upgraded", "cleared", "decorated"}

IsPush(o) == o.op = "click" /\ o.outcome \in PushOutcomes

\* The operations that replace the history by a single snapshot.
IsReset(o) == o.op \in {"start", "load"}

\* What a history entry is a snapshot of.
Snap(r) == [grid |-> r.grid, stats |-> r.stats, quests |-> r.quests]

NoOpsYet ==
    /\ lastOp = Op("init", "init")
    /\ steps = 0
    /\ pushed = <<>>
    /\ rewinds = 0

\* useGameState() after its first render.
InitHook ==
    /\ variant = "hook"
    /\ grid = createInitialGrid(GRID_SIZE)
    /\ stats = InitialStatsHook
    /\ quests = INITIAL_QUESTS
    /\ history = <<>>
    /\ historyIndex = -1
    /\ currentGoal = NoGoal
    /\ gameStarted = TRUE
    /\ aiEnabled = FALSE
    /\ NoOpsYet
    /\ PathIdle
    /\ LandIdle
    /\ CostIdle
    /\ RaceIdle

\* App() after its first render.
InitApp ==
    /\ variant = "app"
    /\ grid = AppCreateInitialGrid(GRID_SIZE)
    /\ stats = InitialStatsApp
    /\ quests = <<>>
    /\ history = <<>>
    /\ historyIndex = -1
    /\ currentGoal = NoGoal
    /\ gameStarted = FALSE
    /\ aiEnabled = TRUE
    /\ NoOpsYet
    /\ PathIdle
    /\ LandIdle
    /\ CostIdle
    /\ RaceIdle

\* A step of the component: the handler runs and React renders its result r.
\* `counted` is 1 when the step uses up one of the `bound` operations.
Step(r, o, bound, counted) ==
    /\ steps < bound
    /\ Becomes(r)
    /\ lastOp' = o
    /\ steps' = steps + counted
    /\ pushed' = IF IsReset(o) THEN <<Snap(r)>>
                 ELSE IF IsPush(o) THEN Append(pushed, Snap(r))
                 ELSE pushed
    /\ rewinds' = IF IsReset(o) THEN 0
                  ELSE IF o.op \in {"undo", "redo"} /\ o.outcome # "nothing"
                  THEN rewinds + 1
                  ELSE rewinds
    /\ UNCHANGED <<variant, pathVars, landVars, costVars, raceVars>>

\* The tools of a category of the toolbar.
HookToolsOf(category) == IF category = "building" THEN HookTools ELSE HookDecorTools

\* A click at (x, y) whose handler returns r = [state, outcome].
ClickStep(r, x, y, category, tool, bound) ==
    Step(r.state, ClickOp(r.outcome, x, y, category, tool), bound, 1)

UndoOutcome == IF historyIndex > 0 THEN "undone" ELSE "nothing"
RedoOutcome == IF historyIndex < Len(history) - 1 THEN "redone" ELSE "nothing"

HookClick ==
    /\ variant = "hook"
    /\ \E c \in ClickPairs, category \in {"building", "decoration"} :
         \E tool \in HookToolsOf(category), color \in HookColors :
            ClickStep(TileClick(St, GRID_SIZE, c[1], c[2], category, tool, color),
                      c[1], c[2], category, tool, MaxSteps)

HookLoadSlot ==
    /\ variant = "hook"
    /\ \E stored \in HookStored :
         Step(loadSlot(St, GRID_SIZE, loadGame(stored, GRID_SIZE)),
              LoadOp(IF loadGame(stored, GRID_SIZE) = NoSave THEN "fresh" ELSE "loaded",
                     stored),
              MaxSteps, 1)

HookUndo ==
    /\ variant = "hook"
    /\ Step(handleUndo(St), Op("undo", UndoOutcome), MaxSteps, 1)

HookRedo ==
    /\ variant = "hook"
    /\ Step(handleRedo(St), Op("redo", RedoOutcome), MaxSteps, 1)

AppStart ==
    /\ variant = "app"
    /\ ~gameStarted
    /\ \E enabled \in BOOLEAN, saved \in AppSaves :
         Step(handleStart(St, GRID_SIZE, enabled, saved),
              Op("start", IF saved = NoSave THEN "fresh" ELSE "loaded"), MaxSteps, 1)

\* fetchNewGoal resolves with a goal (it is started whenever there is none).
AppGoalArrives ==
    /\ variant = "app"
    /\ gameStarted /\ aiEnabled /\ currentGoal = NoGoal
    /\ \E goal \in AppGoals :
         Step([St EXCEPT !.currentGoal = goal], Op("goal", "arrived"), MaxSteps, 1)

AppTick ==
    /\ variant = "app"
    /\ gameStarted
    /\ \E lucky \in SUBSET TickEligible(grid, GRID_SIZE) :
         Step(tick(St, GRID_SIZE, lucky),
              Op("tick", IF lucky # {} THEN "upgraded" ELSE "ticked"), MaxSteps, 1)

AppClick ==
    /\ variant = "app"
    /\ \E c \in ClickPairs, tool \in AppTools :
         ClickStep(AppTileClick(St, GRID_SIZE, c[1], c[2], tool),
                   c[1], c[2], "building", tool, MaxSteps)

AppUndo ==
    /\ variant = "app"
    /\ gameStarted
    /\ Step(performUndo(St), Op("undo", UndoOutcome), MaxSteps, 1)

AppRedo ==
    /\ variant = "app"
    /\ gameStarted
    /\ Step(performRedo(St), Op("redo", RedoOutcome), MaxSteps, 1)

AppClaim ==
    /\ variant = "app"
    /\ gameStarted
    /\ Step(handleClaimReward(St),
            Op("claim", IF currentGoal # NoGoal /\ currentGoal.completed
                        THEN "claimed" ELSE "nothing"), MaxSteps, 1)

InitGame == InitHook \/ InitApp

NextGame ==
    \/ HookClick
    \/ HookLoadSlot
    \/ HookUndo
    \/ HookRedo
    \/ AppStart
    \/ AppGoalArrives
    \/ AppTick
    \/ AppClick
    \/ AppUndo
    \/ AppRedo
    \/ AppClaim

\* Both programs under free input, MaxSteps operations deep.
SpecGame == InitGame /\ [][NextGame]_vars

-----------------------------------------------------------------------------
(* The history stack driven past its limit *)

\* The tool that toggles tile (0, 0) between empty and a road.
ToggleTool == IF grid[0][0].buildingType = "None" THEN "Road" ELSE "None"

DeepHookToggle ==
    /\ variant = "hook"
    /\ ClickStep(TileClick(St, GRID_SIZE, 0, 0, "building", ToggleTool, DEFAULT_COLOR),
                 0, 0, "building", ToggleTool, MaxDeepSteps)

DeepHookUndo ==
    /\ variant = "hook"
    /\ rewinds < MaxRewinds
    /\ Step(handleUndo(St), Op("undo", UndoOutcome), MaxDeepSteps + 1, 0)

DeepHookRedo ==
    /\ variant = "hook"
    /\ rewinds < MaxRewinds
    /\ Step(handleRedo(St), Op("redo", RedoOutcome), MaxDeepSteps + 1, 0)

\* loadSlot, the first thing the hook is asked to do: on an empty slot or on
\* the saved village.
DeepHookLoad ==
    /\ variant = "hook"
    /\ history = <<>>
    /\ \E stored \in {StoredAbsent, StoredSave(GRID_SIZE, SaveVillage)} :
         Step(loadSlot(St, GRID_SIZE, loadGame(stored, GRID_SIZE)),
              LoadOp(IF loadGame(stored, GRID_SIZE) = NoSave THEN "fresh" ELSE "loaded",
                     stored),
              MaxDeepSteps, 0)

DeepAppStart ==
    /\ variant = "app"
    /\ ~gameStarted
    /\ Step(handleStart(St, GRID_SIZE, FALSE, NoSave), Op("start", "fresh"),
            MaxDeepSteps, 0)

DeepAppToggle ==
    /\ variant = "app"
    /\ gameStarted
    /\ ClickStep(AppTileClick(St, GRID_SIZE, 0, 0, ToggleTool),
                 0, 0, "building", ToggleTool, MaxDeepSteps)

DeepAppUndo ==
    /\ variant = "app"
    /\ gameStarted
    /\ rewinds < MaxRewinds
    /\ Step(performUndo(St), Op("undo", UndoOutcome), MaxDeepSteps + 1, 0)

DeepAppRedo ==
    /\ variant = "app"
    /\ gameStarted
    /\ rewinds < MaxRewinds
    /\ Step(performRedo(St), Op("redo", RedoOutcome), MaxDeepSteps + 1, 0)

NextHistory ==
    \/ DeepHookLoad
    \/ DeepHookToggle
    \/ DeepHookUndo
    \/ DeepHookRedo
    \/ DeepAppStart
    \/ DeepAppToggle
    \/ DeepAppUndo
    \/ DeepAppRedo

\* Both programs placing and bulldozing one road MaxDeepSteps times, with up
\* to MaxRewinds undos and redos in between.
SpecHistory == InitGame /\ [][NextHistory]_vars

-----------------------------------------------------------------------------
(* Properties of the history stack and of the tile commands *)

\* The React state after the step.
StNext ==
    [grid |-> grid', stats |-> stats', quests |-> quests', history |-> history',
     historyIndex |-> historyIndex', currentGoal |-> currentGoal',
     gameStarted |-> gameStarted', aiEnabled |-> aiEnabled']

\* Undo and redo of the program at hand.
Undo(s) == IF variant = "hook" THEN handleUndo(s) ELSE performUndo(s)
Redo(s) == IF variant = "hook" THEN handleRedo(s) ELSE performRedo(s)

\* What a history entry restores (the App's entries hold no quests).
EntrySnap(e) ==
    [grid |-> e.grid, stats |-> e.stats,
     quests |-> IF variant = "hook" THEN e.quests ELSE <<>>]

\* The step leaves grid, stats, quests, history and cursor as they were.
NoMutation == UNCHANGED <<grid, stats, quests, history, historyIndex>>

\* In the hook, where undo is applicable, undo followed by redo restores the
\* grid, stats, quests and cursor.
HookUndoRedoRestores ==
    (variant = "hook" /\ historyIndex > 0)
    => /\ handleUndo(St).historyIndex = historyIndex - 1
       /\ Snap(handleRedo(handleUndo(St))) = Snap(St)
       /\ handleRedo(handleUndo(St)).historyIndex = historyIndex

\* A push of B right after a push of A: undo yields A, and redo after it B.
PushPushUndoRedo ==
    (IsPush(lastOp) /\ IsPush(lastOp'))
    => /\ Snap(Undo(StNext)) = Snap(St)
       /\ Snap(Redo(Undo(StNext))) = Snap(StNext)

\* C1: after push(A), push(B), undo() the grid, stats and quests equal A and a
\* following redo() makes them equal B; in every state of the hook where undo
\* is applicable, undo followed by redo restores grid, stats, quests and cursor.
C1_UndoRedoRoundTrip == [](HookUndoRedoRestores) /\ [][PushPushUndoRedo]_vars

\* In the hook a second push has just changed grid, stats and quests, so that
\* undo has something different to return to.
C1_Witness ==
    /\ variant = "hook"
    /\ IsPush(lastOp)
    /\ historyIndex = 1
    /\ Len(pushed) = 2
    /\ pushed[1].grid # pushed[2].grid
    /\ pushed[1].stats # pushed[2].stats
    /\ pushed[1].quests # pushed[2].quests

\* C2: the history never holds more than 20 snapshots, and as long as nothing
\* was undone it holds the most recent of the snapshots pushed, oldest first
\* (after 25 pushes: the last 20, the first 5 evicted).
C2_HistoryBounded ==
    /\ Len(history) <= HISTORY_LIMIT
    /\ rewinds = 0
       => /\ Len(history) = Min(Len(pushed), HISTORY_LIMIT)
          /\ \A i \in 1 .. Len(history) :
                EntrySnap(history[i]) = pushed[Len(pushed) - Len(history) + i]

\* 25 snapshots were pushed onto the hook's empty history; 20 are left, the
\* oldest of them the sixth one pushed.
C2_Witness ==
    /\ variant = "hook"
    /\ rewinds = 0
    /\ Len(pushed) = 25
    /\ Len(history) = 20
    /\ EntrySnap(history[1]) = pushed[6]
    /\ EntrySnap(history[1]) # pushed[5]

\* C3: right after a push the cursor addresses the new snapshot, which is the
\* last entry; the entries before it are the ones that were at or before the
\* cursor, so nothing that was past the cursor remains.
C3_PushDropsRedoTail ==
    [][IsPush(lastOp')
       => /\ historyIndex' = Len(history') - 1
          /\ EntrySnap(history'[Len(history')]) = Snap(StNext)
          /\ Len(history') = Min(historyIndex + 2, HISTORY_LIMIT)
          /\ \A i \in 1 .. Len(history') - 1 :
                history'[i] = history[historyIndex + 2 - Len(history') + i]]_vars

\* A push made two undos below the top of a full stack of 20 entries.
C3_Witness ==
    /\ variant = "hook"
    /\ IsPush(lastOp)
    /\ rewinds = 2
    /\ Len(pushed) = 24
    /\ Len(history) = 19
    /\ historyIndex = 18

\* C4: undo with the cursor at or below 0 and redo with the cursor at the last
\* entry change neither grid, stats, quests, history nor cursor.
C4_UndoRedoNoOp ==
    [][(\/ lastOp'.op = "undo" /\ historyIndex <= 0
        \/ lastOp'.op = "redo" /\ historyIndex >= Len(history) - 1)
       => NoMutation]_vars

\* Undo was asked for with the cursor on the only entry of the history.
C4_Witness ==
    /\ lastOp.op = "undo"
    /\ lastOp.outcome = "nothing"
    /\ historyIndex = 0
    /\ Len(history) = 1

\* C5: the grid on display is the grid of the snapshot at the history cursor
\* (every operation that changes the grid pushes a snapshot of it in the same
\* step).
C5_GridIsSnapshotAtCursor ==
    historyIndex >= 0 => history[historyIndex + 1].grid = grid

\* The tile a click addresses, when it is inside the grid.
ClickOnGrid(o) == o.op = "click" /\ InBounds(o.x, o.y, GRID_SIZE)

\* The price the hook asks for kind `tool` on the clicked tile.
HookPrice(o) == calculateBuildingCost(grid, stats.money, GRID_SIZE, o.tool, o.x, o.y)

\* The step is a placement, an upgrade or (App) a demolition that the player
\* cannot pay for.
Unaffordable(o) ==
    /\ ClickOnGrid(o)
    /\ IF variant = "hook"
       THEN /\ o.category = "building"
            /\ o.tool # "None"
            /\ \/ /\ grid[o.y][o.x].buildingType = "None"
                  /\ HookPrice(o) > stats.money
               \/ /\ grid[o.y][o.x].buildingType = o.tool
                  /\ grid[o.y][o.x].level < MAX_LEVEL_HOOK
                  /\ UpgradeCost(HookPrice(o), grid[o.y][o.x].level) > stats.money
       ELSE /\ gameStarted
            /\ \/ /\ o.tool # "None"
                  /\ grid[o.y][o.x].buildingType = "None"
                  /\ APP_BUILDINGS(o.tool).cost > stats.money
               \/ /\ o.tool = "None"
                  /\ grid[o.y][o.x].buildingType # "None"
                  /\ stats.money < DEMOLISH_COST

\* C6: a placement or an upgrade whose price exceeds the money at hand (in the
\* App also a demolition with less than 5 in the treasury) leaves grid, stats,
\* quests, history and cursor unchanged.
C6_InsufficientFundsRejected == [][Unaffordable(lastOp') => NoMutation]_vars

\* The hook has refused a police station that costs more than the treasury
\* holds.
C6_Witness ==
    /\ variant = "hook"
    /\ lastOp.tool = "Police"
    /\ Unaffordable(lastOp)
    /\ grid[lastOp.y][lastOp.x].buildingType = "None"
    /\ lastOp.outcome = "insufficient"

\* The step is a click outside the grid, or a placement on a tile that holds a
\* building of another kind.
Misplaced(o) ==
    /\ o.op = "click"
    /\ \/ ~InBounds(o.x, o.y, GRID_SIZE)
       \/ /\ o.category = "building"
          /\ o.tool # "None"
          /\ grid[o.y][o.x].buildingType \notin {"None", o.tool}

\* C7: a tile command with a coordinate outside the grid, or a placement on a
\* tile occupied by a building of a different kind, leaves grid, stats, quests,
\* history and cursor unchanged.
C7_MisplacedRejected == [][Misplaced(lastOp') => NoMutation]_vars

\* The hook has refused a park on the tile of a police station.
C7_Witness ==
    /\ variant = "hook"
    /\ lastOp.op = "click"
    /\ lastOp.tool = "Park"
    /\ InBounds(lastOp.x, lastOp.y, GRID_SIZE)
    /\ Misplaced(lastOp)
    /\ grid[lastOp.y][lastOp.x].buildingType = "Police"

-----------------------------------------------------------------------------
(* The path planner as a state machine *)

\* Side of the square grids findPath is run on, and the most tiles of one that
\* hold a building an agent cannot cross.
PathSize == 3
MaxObstacles == 3

BlockingKinds == <<"Residential", "Commercial", "Industrial", "Police", "School">>
WalkableKinds == <<"None", "Road", "Highway", "Park">>

\* A grid of the given width and height in which the tiles of `obstacles`
\* hold buildings; the kind of a tile follows from its place so that every
\* kind of the catalog occurs.
PathGrid(width, height, obstacles) ==
    [y \in 0 .. height - 1 |->
       [x \in 0 .. width - 1 |->
          [x |-> x, y |-> y,
           buildingType |-> IF <<x, y>> \in obstacles
                            THEN BlockingKinds[((x + width * y) % 5) + 1]
                            ELSE WalkableKinds[((x + 2 * y) % 4) + 1]]]]

\* The grids: every square grid with at most MaxObstacles buildings, and one
\* grid of 4 columns and 5 rows without any.
PathGrids ==
    { PathGrid(PathSize, PathSize, obstacles) :
        obstacles \in { o \in SUBSET Coords(PathSize) : Cardinality(o) <= MaxObstacles } }
    \cup { PathGrid(4, 5, {}) }

\* Where an agent stands: a tile of the grid (PopulationSystem keeps agents on
\* tile coordinates while they are idle).
PathStarts == {<<0, 0>>, <<1, 0>>, <<1, 1>>}

\* Where it is sent: any tile of the grid, or a coordinate off its left or
\* bottom edge.
PathEnds(g) ==
    { <<x, y>> : x \in 0 .. PfWidth(g) - 1, y \in 0 .. PfHeight(g) - 1 }
    \cup { <<-1, 0>>, <<0, PfHeight(g)>> }

\* The game state while only the planner runs.
GameIdle ==
    /\ grid = createInitialGrid(GRID_SIZE)
    /\ stats = InitialStatsHook
    /\ quests = INITIAL_QUESTS
    /\ history = <<>>
    /\ historyIndex = -1
    /\ currentGoal = NoGoal
    /\ gameStarted = TRUE
    /\ aiEnabled = FALSE
    /\ NoOpsYet

\* A call findPath(start, end, grid) about to run.
InitPath ==
    /\ variant = "path"
    /\ GameIdle
    /\ pfGrid \in PathGrids
    /\ pfStart \in PathStarts
    /\ pfEnd \in PathEnds(pfGrid)
    /\ openList = <<>>
    /\ closedList = {}
    /\ pfPc = "start"
    /\ pfResult = NoPath
    /\ LandIdle
    /\ CostIdle
    /\ RaceIdle

\* The planner's locals, as the record FindPathStep works on.
Pf == [open |-> openList, closed |-> closedList, pc |-> pfPc, result |-> pfResult]

PfBecomes(p) ==
    /\ openList' = p.open
    /\ closedList' = p.closed
    /\ pfPc' = p.pc
    /\ pfResult' = p.result
    /\ UNCHANGED <<variant, gameVars, ghostVars, landVars, costVars, raceVars, pfGrid,
                   pfStart, pfEnd>>

\* Lines 18-30: the empty closedList and the open list holding startNode.
PathBegin ==
    /\ variant = "path"
    /\ pfPc = "start"
    /\ PfBecomes([Pf EXCEPT !.open = <<StartNode(pfStart, pfEnd)>>, !.pc = "loop"])

\* One pass of the while loop, or the return after it.
PathIterate ==
    /\ variant = "path"
    /\ pfPc = "loop"
    /\ PfBecomes(FindPathStep(Pf, pfGrid, pfEnd))

NextPath == PathBegin \/ PathIterate

SpecPath == InitPath /\ [][NextPath]_vars

-----------------------------------------------------------------------------
(* Properties of the path planner *)

\* The kinds of tile an agent may traverse.
PassableKinds == {"None", "Road", "Highway", "Park"}

InGrid(g, c) ==
    /\ c[1] \in 0 .. Cardinality(DOMAIN g[0]) - 1
    /\ c[2] \in 0 .. Cardinality(DOMAIN g) - 1

\* c is a tile of the grid that an agent may traverse.
CanCross(g, c) == InGrid(g, c) /\ g[c[2]][c[1]].buildingType \in PassableKinds

Adjacent4(c) ==
    {<<c[1] + 1, c[2]>>, <<c[1] - 1, c[2]>>, <<c[1], c[2] + 1>>, <<c[1], c[2] - 1>>}

Manhattan(a, b) == Abs(a[1] - b[1]) + Abs(a[2] - b[2])

RECURSIVE RouteSearch(_, _, _, _, _)
\* Breadth-first flood from `frontier`, d steps from the start: the number of
\* steps at which the flood meets the goal, or -1 when it dies out first.
RouteSearch(g, frontier, seen, goal, d) ==
    IF goal \in frontier THEN d
    ELSE LET next == { n \in UNION { Adjacent4(c) : c \in frontier } :
                         CanCross(g, n) /\ n \notin seen }
         IN  IF next = {} THEN -1
             ELSE RouteSearch(g, next, seen \cup next, goal, d + 1)

\* The length of a shortest route over 4-connected traversable tiles from
\* start to goal, or -1 when there is none.
RouteLength(g, start, goal) ==
    IF CanCross(g, start) /\ CanCross(g, goal)
    THEN RouteSearch(g, {start}, {start}, goal, 0)
    ELSE -1

\* No tile of the grid holds a building an agent cannot cross.
ObstacleFree(g) ==
    \A y \in DOMAIN g : \A x \in DOMAIN g[y] : g[y][x].buildingType \in PassableKinds

\* The goal is off the grid, or none of its four neighbours can be crossed.
GoalWalledIn(g, goal) ==
    \/ ~InGrid(g, goal)
    \/ \A n \in Adjacent4(goal) : ~CanCross(g, n)

PathReturned == pfPc = "done" /\ pfResult # NoPath

\* C8: whenever a route over 4-connected walkable tiles joins start and goal,
\* findPath returns a path whose number of steps is the length of a shortest
\* such route; on a grid without obstacles that is the Manhattan distance.
C8_PathIsShortest ==
    (pfPc = "done" /\ RouteLength(pfGrid, pfStart, pfEnd) >= 0)
    => /\ pfResult # NoPath
       /\ Len(pfResult) - 1 = RouteLength(pfGrid, pfStart, pfEnd)
       /\ ObstacleFree(pfGrid) => Len(pfResult) - 1 = Manhattan(pfStart, pfEnd)

\* findPath has returned a shortest route that had to go round buildings.
C8_Witness ==
    /\ PathReturned
    /\ RouteLength(pfGrid, pfStart, pfEnd) > Manhattan(pfStart, pfEnd)
    /\ Len(pfResult) - 1 = RouteLength(pfGrid, pfStart, pfEnd)

\* C9 (as amended): a returned path starts at the start coordinate, ends at
\* the goal coordinate, moves by one 4-adjacent step at a time, and every
\* coordinate after the first is a walkable tile inside the grid.
C9_PathWellFormed ==
    PathReturned
    => /\ pfResult[1] = pfStart
       /\ pfResult[Len(pfResult)] = pfEnd
       /\ \A i \in 1 .. Len(pfResult) - 1 : Manhattan(pfResult[i], pfResult[i + 1]) = 1
       /\ \A i \in 2 .. Len(pfResult) : CanCross(pfGrid, pfResult[i])

\* A path of several steps has been returned to an agent standing on a
\* building.
C9_Witness ==
    /\ PathReturned
    /\ Len(pfResult) >= 4
    /\ ~CanCross(pfGrid, pfStart)

\* C9 as stated: every coordinate of a returned path, the first included, is
\* a walkable tile inside the grid.
C9_AllTilesWalkable ==
    PathReturned
    => /\ pfResult[1] = pfStart
       /\ pfResult[Len(pfResult)] = pfEnd
       /\ \A i \in 1 .. Len(pfResult) - 1 : Manhattan(pfResult[i], pfResult[i + 1]) = 1
       /\ \A i \in 1 .. Len(pfResult) : CanCross(pfGrid, pfResult[i])

-----------------------------------------------------------------------------
(* The land value machine: one call of computeLandValueMap, pass by pass *)

\* Side length of the grids the land value machine runs on.
LandSize == 7

\* The grid with parks on `parks` and houses on the other tiles of `built`.
LandGrid(N, parks, built) ==
    [y \in 0 .. N - 1 |->
       [x \in 0 .. N - 1 |->
          [createInitialGrid(N)[y][x] EXCEPT !.buildingType =
              IF <<x, y>> \in parks THEN "Park"
              ELSE IF <<x, y>> \in built THEN "Residential" ELSE "None"]]]

\* No park, one park anywhere, or a park in the corner and a second anywhere.
LandParkSets(N) ==
    {{}} \cup {{c} : c \in Coords(N)} \cup {{<<0, 0>>, c} : c \in Coords(N)}

\* No other building, or a row of houses from edge to edge (the column x = 1).
LandWalls(N) == {{}, {<<1, y>> : y \in 0 .. N - 1}}

LandGrids ==
    {LandGrid(LandSize, p, w) : p \in LandParkSets(LandSize),
                                w \in LandWalls(LandSize)}

\* A call computeLandValueMap(grid) about to run.
InitLand ==
    /\ variant = "land"
    /\ GameIdle
    /\ PathIdle
    /\ CostIdle
    /\ RaceIdle
    /\ lvGrid \in LandGrids
    /\ lvQueue = <<>>
    /\ lvHead = 1
    /\ lvVisited = {}
    /\ lvDistMap = <<>>
    /\ lvMap = <<>>
    /\ lvPc = "start"

\* The BFS locals, as the record BfsStep works on.
Bfs == [queue |-> lvQueue, head |-> lvHead, visited |-> lvVisited,
        distMap |-> lvDistMap]

BfsBecomes(b) ==
    /\ lvQueue' = b.queue
    /\ lvHead' = b.head
    /\ lvVisited' = b.visited
    /\ lvDistMap' = b.distMap

\* Lines 16-44: the flat map of a grid without parks, or the BFS locals.
LandBegin ==
    /\ variant = "land"
    /\ lvPc = "start"
    /\ IF CountType(lvGrid, LandSize, "Park") = 0
       THEN /\ lvMap' = LandFlat(LandSize)
            /\ lvPc' = "done"
            /\ UNCHANGED <<lvQueue, lvHead, lvVisited, lvDistMap>>
       ELSE /\ BfsBecomes(BfsStart(lvGrid, LandSize))
            /\ lvPc' = "bfs"
            /\ UNCHANGED lvMap
    /\ UNCHANGED <<variant, gameVars, ghostVars, pathVars, costVars, raceVars, lvGrid>>

\* One pass of the while loop.
LandVisit ==
    /\ variant = "land"
    /\ lvPc = "bfs"
    /\ lvHead <= Len(lvQueue)
    /\ BfsBecomes(BfsStep(Bfs, LandSize))
    /\ UNCHANGED <<variant, gameVars, ghostVars, pathVars, costVars, raceVars, lvGrid,
                   lvMap, lvPc>>

\* Lines 73-79: the loop has ended; the map is normalised and returned.
LandFinish ==
    /\ variant = "land"
    /\ lvPc = "bfs"
    /\ lvHead > Len(lvQueue)
    /\ lvMap' = LandNormalize(lvDistMap, LandSize)
    /\ lvPc' = "done"
    /\ UNCHANGED <<variant, gameVars, ghostVars, pathVars, costVars, raceVars, lvGrid,
                   lvQueue, lvHead, lvVisited, lvDistMap>>

NextLand == LandBegin \/ LandVisit \/ LandFinish

SpecLand == InitLand /\ [][NextLand]_vars

-----------------------------------------------------------------------------
(* The cost machine: calculateBuildingCost as the city fills up *)

\* The largest number of tiles of one kind the cost machine builds up to.
MaxCostCount == 4

\* The grids the series start from: open land, or a park in the middle.
CostGrids ==
    { createInitialGrid(GRID_SIZE),
      [createInitialGrid(GRID_SIZE) EXCEPT ![1][1] = [@ EXCEPT !.buildingType = "Park"]] }

\* Treasuries below, at and above the wealth tax threshold.
CostTreasuries ==
    {INITIAL_MONEY_HOOK, WEALTH_TAX_THRESHOLD, WEALTH_TAX_THRESHOLD + 1}

\* The coordinates priced: a corner, an edge tile and the middle tile.
CostProbes == {<<0, 0>>, <<1, 0>>, <<1, 1>>}

\* The hook while calculateBuildingCost(type, x, y) is called again and again
\* with more and more tiles of that type on the grid.
InitCost ==
    /\ variant = "cost"
    /\ grid \in CostGrids
    /\ stats \in {[InitialStatsHook EXCEPT !.money = m] : m \in CostTreasuries}
    /\ quests = INITIAL_QUESTS
    /\ history = <<>>
    /\ historyIndex = -1
    /\ currentGoal = NoGoal
    /\ gameStarted = TRUE
    /\ aiEnabled = FALSE
    /\ NoOpsYet
    /\ PathIdle
    /\ LandIdle
    /\ RaceIdle
    /\ ccType \in BuildingTypes \ {"None"}
    /\ ccAt \in CostProbes
    /\ ccCosts = <<>>
    /\ ccPc = "call"

\* The land value the hook's landValueMap holds for the tile c of the grid g.
LandValueOn(g, c) == computeLandValueMap(g, GRID_SIZE)[Idx(c[1], c[2], GRID_SIZE)]

\* The grid g with one more building of the given type, at c.
CostBuilt(g, c, type) ==
    [g EXCEPT ![c[2]][c[1]] = [@ EXCEPT !.buildingType = type]]

\* The empty tiles other than the priced one where a building of the type
\* leaves the land value of the priced tile as it is.
CostSites(g, type, at) ==
    {c \in Coords(GRID_SIZE) :
        /\ c # at
        /\ g[c[2]][c[1]].buildingType = "None"
        /\ type = "Park" => LandValueOn(CostBuilt(g, c, type), at) = LandValueOn(g, at)}

\* The first of them in scan order.
CostNextSite(g, type, at) ==
    CHOOSE c \in CostSites(g, type, at) :
       \A d \in CostSites(g, type, at) :
          Idx(c[1], c[2], GRID_SIZE) <= Idx(d[1], d[2], GRID_SIZE)

\* calculateBuildingCost(ccType, x, y) is called and its value noted.
CostCall ==
    /\ variant = "cost"
    /\ ccPc = "call"
    /\ ccCosts' = Append(ccCosts,
                         calculateBuildingCost(grid, stats.money, GRID_SIZE, ccType,
                                               ccAt[1], ccAt[2]))
    /\ ccPc' = "grow"
    /\ UNCHANGED <<variant, gameVars, ghostVars, pathVars, landVars, raceVars, ccType,
                   ccAt>>

\* One more tile of the type appears on the grid, the treasury and the land
\* value of the priced tile staying as they are.
CostGrow ==
    /\ variant = "cost"
    /\ ccPc = "grow"
    /\ CountType(grid, GRID_SIZE, ccType) < MaxCostCount
    /\ CostSites(grid, ccType, ccAt) # {}
    /\ grid' = CostBuilt(grid, CostNextSite(grid, ccType, ccAt), ccType)
    /\ ccPc' = "call"
    /\ UNCHANGED <<variant, stats, quests, history, historyIndex, currentGoal,
                   gameStarted, aiEnabled, ghostVars, pathVars, landVars, raceVars,
                   ccType, ccAt, ccCosts>>

NextCost == CostCall \/ CostGrow

SpecCost == InitCost /\ [][NextCost]_vars

\* C16: with the type, the coordinate, its land value and the treasury held
\* fixed, each further tile of the type on the grid makes the rounded cost
\* strictly greater.
C16_CostStrictlyIncreasing ==
    \A i \in 1 .. Len(ccCosts) - 1 : ccCosts[i] < ccCosts[i + 1]

\* Four prices of a road, the kind with the smallest base cost and scaling
\* factor, have been computed for a wealthy city on the cheapest land.
C16_Witness ==
    /\ variant = "cost"
    /\ Len(ccCosts) >= 4
    /\ ccType = "Road"
    /\ stats.money > WEALTH_TAX_THRESHOLD
    /\ CountType(grid, GRID_SIZE, "Park") = 0

-----------------------------------------------------------------------------
(* Claims about the land value field *)

\* The park tiles of a grid.
ParkTiles(g, N) == {c \in Coords(N) : g[c[2]][c[1]].buildingType = "Park"}

\* The least number of 4-connected moves from c to a park when nothing blocks
\* a move (999 stands for "no park").
ParkDistance(g, N, c) ==
    IF ParkTiles(g, N) = {} THEN 999
    ELSE CHOOSE d \in 0 .. 2 * N :
           /\ \E p \in ParkTiles(g, N) : Manhattan(c, p) = d
           /\ \A p \in ParkTiles(g, N) : Manhattan(c, p) >= d

\* v / F32_SCALE is the single-precision number nearest to t / 10: it is
\* within half a unit in the last place (2^-25 below 1.0) of it.
IsTenths(v, t) == Abs(10 * v - t * F32_SCALE) <= 10 * (F32_SCALE \div Pow(2, 25))

\* The value the returned map holds for the tile c.
LandValueAt(c) == lvMap[Idx(c[1], c[2], LandSize)]

\* C11 (as stated): every value of the returned map lies in [0.1, 1.0], and
\* the map of a grid without parks is 0.1 everywhere.
C11_ValuesAtLeastFloor ==
    lvPc = "done" =>
        /\ \A c \in Coords(LandSize) :
              IsTenths(LandValueAt(c), 1) \/
              (10 * LandValueAt(c) >= F32_SCALE /\ LandValueAt(c) <= F32_SCALE)
        /\ ParkTiles(lvGrid, LandSize) = {} =>
              \A c \in Coords(LandSize) : IsTenths(LandValueAt(c), 1)

\* C11 (amended): every value of the returned map lies in [0, 1.0]; it is
\* below 0.1 only at the tiles exactly 10 moves from the nearest park, where
\* it is 0; and the map of a grid without parks is 0.1 everywhere.
C11_LandValueBounds ==
    lvPc = "done" =>
        /\ \A c \in Coords(LandSize) :
              /\ LandValueAt(c) >= 0
              /\ LandValueAt(c) <= F32_SCALE
              /\ IsTenths(LandValueAt(c), 1)
                 \/ 10 * LandValueAt(c) >= F32_SCALE
                 \/ (LandValueAt(c) = 0 /\ ParkDistance(lvGrid, LandSize, c) = 10)
        /\ ParkTiles(lvGrid, LandSize) = {} =>
              \A c \in Coords(LandSize) : IsTenths(LandValueAt(c), 1)

\* A returned map with a park, a tile at the rim of the radius holding 0 and a
\* tile beyond the radius holding the floor.
C11_Witness ==
    /\ lvPc = "done"
    /\ ParkTiles(lvGrid, LandSize) # {}
    /\ \E c \in Coords(LandSize) :
          ParkDistance(lvGrid, LandSize, c) = 10 /\ LandValueAt(c) = 0
    /\ \E c \in Coords(LandSize) :
          ParkDistance(lvGrid, LandSize, c) > 10 /\ IsTenths(LandValueAt(c), 1)

\* C12: the returned map is the distance field of the parks: a tile d <= 10
\* moves from the nearest park holds 1.0 - d/10 (1.0 on a park), a tile
\* farther away or in a grid without parks holds 0.1, whatever is built on
\* the tiles in between; and no tile is pushed on the queue twice.
C12_LandValueIsDistanceField ==
    /\ \A i, j \in 1 .. Len(lvQueue) :
          (lvQueue[i].x = lvQueue[j].x /\ lvQueue[i].y = lvQueue[j].y) => i = j
    /\ lvPc = "done" =>
          \A c \in Coords(LandSize) :
             LET d == ParkDistance(lvGrid, LandSize, c)
             IN  /\ d = 0 => LandValueAt(c) = F32_SCALE
                 /\ d <= 10 => IsTenths(LandValueAt(c), 10 - d)
                 /\ d > 10 => IsTenths(LandValueAt(c), 1)

\* A returned map of a grid with two parks and a row of houses, holding 0.9
\* behind the houses and the floor beyond the radius.
C12_Witness ==
    /\ lvPc = "done"
    /\ Cardinality(ParkTiles(lvGrid, LandSize)) = 2
    /\ CountType(lvGrid, LandSize, "Residential") > 0
    /\ \E c \in Coords(LandSize) :
          /\ c[1] > 1
          /\ ParkDistance(lvGrid, LandSize, c) = 3
          /\ IsTenths(LandValueAt(c), 7)
    /\ \E c \in Coords(LandSize) : ParkDistance(lvGrid, LandSize, c) > 10

-----------------------------------------------------------------------------
(* Claims about quests and goals *)

\* The operations of the player and the timer, as lastOp names them.
PlayOps == {"click", "tick", "undo", "redo", "claim"}

\* The money goal or quest is marked completed whenever the treasury has
\* reached its target.
MoneyGoalsSettled ==
    /\ (currentGoal # NoGoal /\ currentGoal.targetType = "money"
        /\ stats.money >= currentGoal.targetValue) => currentGoal.completed
    /\ \A i \in 1 .. Len(quests) :
          (quests[i].type = "money" /\ stats.money >= quests[i].targetValue)
              => quests[i].completed

\* C13: once a tick or an action of the player has finished, no money goal
\* or quest whose target the treasury has reached is still not completed.
C13_MoneyGoalCompletedOnTime == lastOp.op \in PlayOps => MoneyGoalsSettled

\* Every quest completed before the step is completed after it.
QuestsStayCompleted ==
    \A i \in 1 .. Len(quests) :
       quests[i].completed => (i <= Len(quests') /\ quests'[i].completed)

\* A goal completed before the step is the same goal after it.
GoalStaysCompleted ==
    (currentGoal # NoGoal /\ currentGoal.completed) => currentGoal' = currentGoal

\* C14 (as stated): a completed quest or goal stays completed under every
\* click, tick, undo and redo.
C14_LatchedUnderUndo ==
    [][lastOp'.op \in {"click", "tick", "undo", "redo"}
          => (QuestsStayCompleted /\ GoalStaysCompleted)]_vars

\* C14 (amended): a completed quest or goal stays completed under every click
\* and tick, and the App's goal also under undo and redo.
C14_CompletionLatched ==
    [][/\ lastOp'.op \in {"click", "tick"}
            => (QuestsStayCompleted /\ GoalStaysCompleted)
       /\ (variant = "app" /\ lastOp'.op \in {"undo", "redo"})
            => GoalStaysCompleted]_vars

\* A quest that counts buildings is completed although the demolition just
\* made has taken the count below its target.
C14_Witness ==
    /\ lastOp.op = "click" /\ lastOp.outcome = "demolished"
    /\ \E i \in 1 .. Len(quests) :
          /\ quests[i].completed
          /\ quests[i].type = "build"
          /\ CountType(grid, GRID_SIZE, quests[i].targetKey) < quests[i].targetValue

\* The tiles whose level differs between two grids.
LevelChanges(g, h) ==
    {c \in Coords(GRID_SIZE) : LevelOr1(g[c[2]][c[1]]) # LevelOr1(h[c[2]][c[1]])}

\* The income of the occupied tiles of a grid.
GridIncome(g) == SumGen(g, Coords(GRID_SIZE), "incomeGen")

\* C15: in the App a claim on a completed goal adds the reward to the money
\* and clears the goal, changing nothing else; a claim without a completed
\* goal changes nothing; a tick changes the money by the income alone, also
\* when it completes the goal; and no other operation changes a completed
\* goal.
C15_RewardOnlyByClaim ==
    [][variant = "app" =>
         /\ lastOp'.op = "claim" =>
               IF currentGoal # NoGoal /\ currentGoal.completed
               THEN /\ stats' = [stats EXCEPT !.money = @ + currentGoal.reward]
                    /\ currentGoal' = NoGoal
                    /\ UNCHANGED <<grid, history, historyIndex>>
               ELSE UNCHANGED gameVars
         /\ lastOp'.op = "tick" =>
               stats'.money = stats.money + GridIncome(grid)
                              + UPGRADE_BONUS * Cardinality(LevelChanges(grid, grid'))
         /\ lastOp'.op \in {"click", "tick", "undo", "redo", "goal"}
               => GoalStaysCompleted]_vars

\* A claim has just paid the reward of the completed goal of a loaded city.
C15_Witness ==
    /\ variant = "app"
    /\ lastOp.op = "claim" /\ lastOp.outcome = "claimed"
    /\ currentGoal = NoGoal
    /\ stats.money = SaveBroke.stats.money + SaveBroke.goal.reward

-----------------------------------------------------------------------------
(* Claims about the tick *)

\* The income of a grid, kind by kind: tiles of the kind times its incomeGen.
IncomeByKind(g) ==
      CountType(g, GRID_SIZE, "Road")        * APP_BUILDINGS("Road").incomeGen
    + CountType(g, GRID_SIZE, "Residential") * APP_BUILDINGS("Residential").incomeGen
    + CountType(g, GRID_SIZE, "Commercial")  * APP_BUILDINGS("Commercial").incomeGen
    + CountType(g, GRID_SIZE, "Industrial")  * APP_BUILDINGS("Industrial").incomeGen
    + CountType(g, GRID_SIZE, "Park")        * APP_BUILDINGS("Park").incomeGen
    + CountType(g, GRID_SIZE, "Police")      * APP_BUILDINGS("Police").incomeGen
    + CountType(g, GRID_SIZE, "School")      * APP_BUILDINGS("School").incomeGen

\* No tile of the grid holds a building.
NoBuildings(g) == CountType(g, GRID_SIZE, "None") = GRID_SIZE * GRID_SIZE

\* C17: a tick adds to the money the incomeGen of every occupied tile and 10
\* for every tile it upgrades, and adds 1 to the day; on a grid without
\* buildings it leaves the money as it is and the population at 0, or lowers
\* the population by the decay step, not below 0.
C17_TickArithmetic ==
    [][(variant = "app" /\ lastOp'.op = "tick") =>
         /\ stats'.money = stats.money + IncomeByKind(grid)
                           + 10 * Cardinality(LevelChanges(grid, grid'))
         /\ stats'.day = stats.day + 1
         /\ NoBuildings(grid) =>
               /\ stats'.money = stats.money
               /\ stats'.population =
                     IF stats.population <= 5 THEN 0 ELSE stats.population - 5]_vars

\* Two ticks have emptied a town without buildings: its money is what the
\* save held and nobody lives there any more.
C17_Witness ==
    /\ variant = "app"
    /\ lastOp.op = "tick"
    /\ NoBuildings(grid)
    /\ stats.day = SaveGhostTown.stats.day + 2
    /\ stats.money = SaveGhostTown.stats.money
    /\ stats.population = 0

-----------------------------------------------------------------------------
(* Claims about loading *)

\* The entry loadSlot found is no save of this build: nothing is stored, the
\* text does not parse, or its version is not GRID_SIZE.
NoUsableSave(stored) ==
    stored.kind = "absent" \/ stored.kind = "garbage" \/ stored.version # GRID_SIZE

\* C18: when the stored version differs from GRID_SIZE, or nothing or
\* unparsable text is stored, loadGame returns null and loadSlot starts a
\* fresh world: every tile empty, money 1000, population 0, day 1, the
\* initial quests with none completed, and a history of exactly that state
\* with the cursor at 0.
C18_StaleSaveStartsFresh ==
    [][(variant = "hook" /\ lastOp'.op = "load" /\ NoUsableSave(lastOp'.stored)) =>
         /\ lastOp'.outcome = "fresh"
         /\ \A c \in Coords(GRID_SIZE) :
               /\ grid'[c[2]][c[1]].buildingType = "None"
               /\ grid'[c[2]][c[1]].decoration = "None"
               /\ grid'[c[2]][c[1]].level = 1
         /\ stats'.money = 1000 /\ stats'.population = 0 /\ stats'.day = 1
         /\ Len(quests') = Len(INITIAL_QUESTS)
         /\ \A i \in 1 .. Len(quests') :
               /\ ~quests'[i].completed
               /\ quests'[i] = INITIAL_QUESTS[i]
         /\ history' = <<[grid |-> grid', stats |-> stats', quests |-> quests']>>
         /\ historyIndex' = 0]_vars

\* A loadSlot that was not the first operation found a village with a house
\* saved under another version, and the hook shows the fresh world.
C18_Witness ==
    /\ variant = "hook"
    /\ lastOp.op = "load"
    /\ lastOp.stored.kind = "json"
    /\ lastOp.stored.version # GRID_SIZE
    /\ CountType(lastOp.stored.data.grid, GRID_SIZE, "None") < GRID_SIZE * GRID_SIZE
    /\ steps >= 2
    /\ grid = createInitialGrid(GRID_SIZE)
    /\ historyIndex = 0

-----------------------------------------------------------------------------
(* The race machine: the App's timer and click handlers between renders *)

\* Handlers run per behaviour of the race machine.
MaxRaceOps == 2

\* The clicked tiles, the tools and the saves of the race machine.
RaceClicks == {<<0, 0>>, <<1, 1>>}
RaceTools == {"None", "Residential"}
RaceSaves == {NoSave, SaveTown}

\* The App after handleStart(slotId, true) has found `saved`.
RaceStarted(saved) ==
    handleStart([grid |-> AppCreateInitialGrid(GRID_SIZE), stats |-> InitialStatsApp,
                 quests |-> <<>>, history |-> <<>>, historyIndex |-> -1,
                 currentGoal |-> NoGoal, gameStarted |-> FALSE, aiEnabled |-> TRUE],
                GRID_SIZE, TRUE, saved)

\* The started App after a render and its effects: the refs hold the
\* rendered grid and stats and no update is queued.
InitRace ==
    /\ variant = "race"
    /\ \E saved \in RaceSaves :
          /\ grid = RaceStarted(saved).grid
          /\ stats = RaceStarted(saved).stats
          /\ history = RaceStarted(saved).history
          /\ historyIndex = RaceStarted(saved).historyIndex
          /\ currentGoal = RaceStarted(saved).currentGoal
    /\ quests = <<>>
    /\ gameStarted = TRUE
    /\ aiEnabled = TRUE
    /\ NoOpsYet
    /\ PathIdle
    /\ LandIdle
    /\ CostIdle
    /\ gridRef = grid
    /\ statsRef = stats
    /\ pending = <<>>
    /\ raceLog = [start |-> [grid |-> grid, stats |-> stats], ops |-> <<>>]

\* What a handler reads: grid and stats from the refs, history and the rest
\* from the render it was created in.
RaceView == [St EXCEPT !.grid = gridRef, !.stats = statsRef]

\* The updates a tick queues: setGrid(newGrid) when a tile is upgraded and
\* setStats(prev => ...), both computed from the grid `seen` in gridRef.
TickUpdate(seen, lucky) ==
    [op |-> "tick", grid |-> seen, lucky |-> lucky, stats |-> <<>>,
     history |-> <<>>, historyIndex |-> 0]

\* The updates an accepted click queues: setGrid, setStats, setHistory and
\* setHistoryIndex with the values of the state r it computed.
ClickUpdate(r) ==
    [op |-> "click", grid |-> r.grid, lucky |-> {}, stats |-> r.stats,
     history |-> r.history, historyIndex |-> r.historyIndex]

\* The state after React has applied the queued update u to the state cur.
ApplyUpdate(cur, u) ==
    IF u.op = "tick"
    THEN [cur EXCEPT
            !.grid = IF TickEligible(u.grid, GRID_SIZE) \cap u.lucky # {}
                     THEN tick([cur EXCEPT !.grid = u.grid], GRID_SIZE, u.lucky).grid
                     ELSE cur.grid,
            !.stats = tick([cur EXCEPT !.grid = u.grid], GRID_SIZE, u.lucky).stats,
            !.currentGoal =
                tick([cur EXCEPT !.grid = u.grid], GRID_SIZE, u.lucky).currentGoal]
    ELSE [cur EXCEPT !.grid = u.grid, !.stats = u.stats, !.history = u.history,
                     !.historyIndex = u.historyIndex]

RECURSIVE ApplyUpdates(_, _)
\* The queue applied in the order the updates were made.
ApplyUpdates(cur, us) ==
    IF us = <<>> THEN cur ELSE ApplyUpdates(ApplyUpdate(cur, Head(us)), Tail(us))

\* What the race log notes of a handler run.
RaceEntry(op, outcome, at, tool, cost, income, upgraded) ==
    [op |-> op, outcome |-> outcome, at |-> at, tool |-> tool, cost |-> cost,
     income |-> income, upgraded |-> upgraded]

\* The money an accepted click takes.
ClickCost(outcome, tool) ==
    IF outcome = "placed" THEN APP_BUILDINGS(tool).cost
    ELSE IF outcome = "demolished" THEN DEMOLISH_COST ELSE 0

\* The setInterval callback runs; its updates wait for the next render.
RaceTick ==
    /\ variant = "race"
    /\ Len(raceLog.ops) < MaxRaceOps
    /\ \E lucky \in SUBSET TickEligible(gridRef, GRID_SIZE) :
          /\ pending' = Append(pending, TickUpdate(gridRef, lucky))
          /\ raceLog' = [raceLog EXCEPT !.ops = Append(@,
                            RaceEntry("tick", "ticked", <<0, 0>>, "", 0,
                                      SumGen(gridRef, Coords(GRID_SIZE), "incomeGen")
                                        + UPGRADE_BONUS * Cardinality(lucky),
                                      lucky))]
    /\ UNCHANGED <<variant, gameVars, ghostVars, pathVars, landVars, costVars,
                   gridRef, statsRef>>

\* handleTileClick runs; the updates of an accepted click wait for the next
\* render.
RaceClick ==
    /\ variant = "race"
    /\ Len(raceLog.ops) < MaxRaceOps
    /\ \E c \in RaceClicks, tool \in RaceTools :
          /\ pending' =
                IF AppTileClickOutcome(RaceView, GRID_SIZE, c[1], c[2], tool)
                      \in {"placed", "demolished"}
                THEN Append(pending,
                            ClickUpdate(AppHandleTileClick(RaceView, GRID_SIZE,
                                                           c[1], c[2], tool)))
                ELSE pending
          /\ raceLog' = [raceLog EXCEPT !.ops = Append(@,
                            RaceEntry("click",
                                      AppTileClickOutcome(RaceView, GRID_SIZE,
                                                          c[1], c[2], tool),
                                      c, tool,
                                      ClickCost(AppTileClickOutcome(RaceView, GRID_SIZE,
                                                                    c[1], c[2], tool),
                                                tool),
                                      0, {}))]
    /\ UNCHANGED <<variant, gameVars, ghostVars, pathVars, landVars, costVars,
                   gridRef, statsRef>>

\* React renders: the queued updates are applied in order, and the effects
\* of lines 76-77 copy the rendered grid and stats into the refs.
RaceRender ==
    /\ variant = "race"
    /\ pending # <<>>
    /\ Becomes(ApplyUpdates(St, pending))
    /\ gridRef' = grid'
    /\ statsRef' = stats'
    /\ pending' = <<>>
    /\ UNCHANGED <<variant, ghostVars, pathVars, landVars, costVars, raceLog>>

NextRace == RaceTick \/ RaceClick \/ RaceRender

SpecRace == InitRace /\ [][NextRace]_vars

\* The positions in the race log of the ticks and of the accepted clicks.
RaceTicks == {i \in 1 .. Len(raceLog.ops) : raceLog.ops[i].op = "tick"}
RaceAccepted ==
    {i \in 1 .. Len(raceLog.ops) :
        raceLog.ops[i].op = "click"
        /\ raceLog.ops[i].outcome \in {"placed", "demolished"}}

\* C19: when one tick and one accepted placement or demolition have run, in
\* either order and with or without a render in between, and everything is
\* rendered, the money is the initial money plus the tick's income minus the
\* click's cost, the day has advanced by 1, the clicked tile holds what the
\* click put there and every other tile the tick upgraded is a level higher.
C19_NoLostUpdate ==
    (/\ variant = "race"
     /\ pending = <<>>
     /\ Len(raceLog.ops) = 2
     /\ Cardinality(RaceTicks) = 1
     /\ Cardinality(RaceAccepted) = 1) =>
        LET t == raceLog.ops[CHOOSE i \in RaceTicks : TRUE]
            c == raceLog.ops[CHOOSE i \in RaceAccepted : TRUE]
        IN  /\ stats.money = raceLog.start.stats.money + t.income - c.cost
            /\ stats.day = raceLog.start.stats.day + 1
            /\ grid[c.at[2]][c.at[1]].buildingType = c.tool
            /\ \A u \in t.upgraded \ {c.at} :
                  LevelOr1(grid[u[2]][u[1]])
                     = LevelOr1(raceLog.start.grid[u[2]][u[1]]) + 1

-----------------------------------------------------------------------------
(* Claims about the termination of findPath *)

\* No two nodes of the open list are on the same tile.
OpenListDistinct ==
    \A i, j \in 1 .. Len(openList) :
       (openList[i].x = openList[j].x /\ openList[i].y = openList[j].y) => i = j

\* The search has returned because it took the goal from the open list, or
\* because the open list was empty.
EndedByGoalOrEmpty ==
    pfPc = "done" =>
        \/ pfResult # NoPath /\ pfResult[Len(pfResult)] = pfEnd
        \/ pfResult = NoPath /\ openList = <<>>

\* The closed tiles are tiles of the grid, and no node of the open list is
\* on one of them.
ClosedWithinGrid ==
    /\ \A c \in closedList : InGrid(pfGrid, c)
    /\ \A i \in 1 .. Len(openList) : <<openList[i].x, openList[i].y>> \notin closedList

\* The pass of the loop that is about to run returns, or moves one tile that
\* was not closed to the closed list.
PassClosesNewTile ==
    pfPc = "loop" =>
        LET after == FindPathStep(Pf, pfGrid, pfEnd)
        IN  \/ after.pc = "done"
            \/ /\ after.pc = "loop"
               /\ closedList \subseteq after.closed
               /\ Cardinality(after.closed) = Cardinality(closedList) + 1

\* C20: findPath terminates: every pass of its loop either returns or moves
\* a tile that was not closed to the closed list, which holds tiles of the
\* grid only, so there are at most width * height such passes; no tile is
\* twice in the open list; and the search ends by reaching the goal or by
\* emptying the open list.
C20_FindPathTerminates ==
    /\ OpenListDistinct
    /\ ClosedWithinGrid
    /\ PassClosesNewTile
    /\ Cardinality(closedList) <= PfWidth(pfGrid) * PfHeight(pfGrid)
    /\ EndedByGoalOrEmpty

\* A search for a goal on the grid that closed every tile it could reach,
\* more than three, and returned null with the open list empty.
C20_Witness ==
    /\ pfPc = "done"
    /\ pfResult = NoPath
    /\ openList = <<>>
    /\ Cardinality(closedList) > 3
    /\ InGrid(pfGrid, pfEnd)

-----------------------------------------------------------------------------
(* The tick on its own: the setInterval callback run again and again *)

MaxTicks == 3

\* A tile of the App's grid holding a building of the given kind and level.
TickTile(x, y, kind, level) ==
    [x |-> x, y |-> y, buildingType |-> kind, level |-> level]

\* What stands on the four lots of a town: lot 1 at (0, 0), lot 2 beside it
\* at (1, 0), lot 3 two moves from lot 1 at (2, 0), lot 4 in the far corner.
TickLots ==
    [lot1 : {"None", "Park"},
     lot2 : {<<"None", 0>>, <<"Residential", 1>>, <<"Residential", 2>>,
             <<"Residential", 3>>},
     lot3 : {<<"None", 0>>, <<"Residential", 1>>, <<"Commercial", 1>>},
     lot4 : {<<"None", 0>>, <<"Residential", 2>>, <<"School", 1>>}]

\* The grids a tick may find: a town built on the four lots.  Houses are at
\* the levels ticks give them; everything else is as handleTileClick places it.
TickGrids ==
    { [AppCreateInitialGrid(GRID_SIZE) EXCEPT
         ![0][0] = TickTile(0, 0, l.lot1, IF l.lot1 = "None" THEN 0 ELSE 1),
         ![0][1] = TickTile(1, 0, l.lot2[1], l.lot2[2]),
         ![0][2] = TickTile(2, 0, l.lot3[1], l.lot3[2]),
         ![GRID_SIZE - 1][GRID_SIZE - 1] =
             TickTile(GRID_SIZE - 1, GRID_SIZE - 1, l.lot4[1], l.lot4[2])]
      : l \in TickLots }

\* The populations a tick may find: none, a few, and just below or above the
\* room that one, two or three houses give.
TickPopulations == {0, 3, 48, 97, 160}

\* The App with a town on the grid, about to tick.
InitTick ==
    /\ variant = "tick"
    /\ grid \in TickGrids
    /\ stats \in {[InitialStatsApp EXCEPT !.population = p] : p \in TickPopulations}
    /\ quests = <<>>
    /\ history = <<>>
    /\ historyIndex = -1
    /\ currentGoal = NoGoal
    /\ gameStarted = TRUE
    /\ aiEnabled = TRUE
    /\ NoOpsYet
    /\ PathIdle
    /\ LandIdle
    /\ CostIdle
    /\ RaceIdle

\* The setInterval callback fires and React renders what it set.
TickRun ==
    /\ variant = "tick"
    /\ \E lucky \in SUBSET TickEligible(grid, GRID_SIZE) :
         Step(tick(St, GRID_SIZE, lucky),
              Op("tick", IF lucky # {} THEN "upgraded" ELSE "ticked"), MaxTicks, 1)

NextTick == TickRun

SpecTick == InitTick /\ [][NextTick]_vars

-----------------------------------------------------------------------------
(* Claims about the tick on its own *)

\* The popGen of a grid, kind by kind: 5 a house, 1 a park, 2 a school.
PopGrowthByKind(g) ==
      5 * CountType(g, GRID_SIZE, "Residential")
    + 1 * CountType(g, GRID_SIZE, "Park")
    + 2 * CountType(g, GRID_SIZE, "School")

\* C21: with at least one residential tile the population after a tick is
\* the smaller of the population before plus the popGen of the occupied
\* tiles and 50 times the number of residential tiles; without residential
\* tiles a positive population drops by 5, not below 0, whatever else is
\* built; and the population is never negative.
C21_TickPopulation ==
    [][lastOp'.op = "tick" =>
         LET resCount == CountType(grid, GRID_SIZE, "Residential")
             grown    == stats.population + PopGrowthByKind(grid)
         IN  /\ resCount >= 1 =>
                   stats'.population = Min(grown, 50 * resCount)
             /\ (resCount = 0 /\ stats.population > 0) =>
                   stats'.population = Max(0, stats.population - 5)
             /\ stats'.population >= 0]_vars

\* After one tick the single house of a town is full: the population before
\* and the day's growth were more than its 50 places.
C21_Witness ==
    /\ variant = "tick"
    /\ lastOp.op = "tick"
    /\ steps = 1
    /\ CountType(grid, GRID_SIZE, "Residential") = 1
    /\ PopGrowthByKind(grid) > 5
    /\ stats.population = 50

-----------------------------------------------------------------------------
(* The hook on a loaded town: handleTileClick after loadSlot *)

MaxTownSteps == 2

\* A tile of the hook's grid holding a building, undecorated.
TownTile(x, y, kind, level) ==
    [x |-> x, y |-> y, color |-> DEFAULT_COLOR, decoration |-> "None",
     buildingType |-> kind, level |-> level]

\* What stands on the four lots of a saved town: lot 1 at (0, 0), lot 2
\* beside it at (1, 0), lot 3 at (2, 0), lot 4 in the far corner.
TownLots ==
    [lot1 : {<<"None", 1>>, <<"Residential", 1>>, <<"Residential", 4>>,
             <<"Residential", 5>>},
     lot2 : {"None", "Park"},
     lot3 : {<<"None", 1>>, <<"Residential", 1>>, <<"Residential", 3>>},
     lot4 : {"None", "Residential"}]

TownGrid(l) ==
    [createInitialGrid(GRID_SIZE) EXCEPT
       ![0][0] = TownTile(0, 0, l.lot1[1], l.lot1[2]),
       ![0][1] = TownTile(1, 0, l.lot2, 1),
       ![0][2] = TownTile(2, 0, l.lot3[1], l.lot3[2]),
       ![GRID_SIZE - 1][GRID_SIZE - 1] = TownTile(GRID_SIZE - 1, GRID_SIZE - 1, l.lot4, 1)]

\* The treasuries of the saved towns: nearly empty, the initial money, and
\* the wealth tax threshold with and without one coin more.
TownTreasuries == {30, 1000, 10000, 10001}

\* Saves loadGame may return: towns saved by the hook before quests were part
\* of a save (lines 91-93 then take INITIAL_QUESTS), the population being
\* that of the grid.
TownSaves ==
    { [grid   |-> TownGrid(l),
       stats  |-> [population |-> PopulationOf(TownGrid(l), GRID_SIZE),
                   money |-> m, day |-> 1, happiness |-> 100],
       quests |-> NoQuests] : l \in TownLots, m \in TownTreasuries }

\* The hook as it is constructed, before loadSlot.
TownBlank ==
    [grid |-> createInitialGrid(GRID_SIZE), stats |-> InitialStatsHook,
     quests |-> INITIAL_QUESTS, history |-> <<>>, historyIndex |-> -1,
     currentGoal |-> NoGoal, gameStarted |-> TRUE, aiEnabled |-> FALSE]

\* The hook right after loadSlot found one of the saves.
InitTown ==
    /\ variant = "town"
    /\ \E save \in TownSaves :
         /\ grid = loadSlot(TownBlank, GRID_SIZE, save).grid
         /\ stats = loadSlot(TownBlank, GRID_SIZE, save).stats
         /\ quests = loadSlot(TownBlank, GRID_SIZE, save).quests
         /\ history = loadSlot(TownBlank, GRID_SIZE, save).history
         /\ historyIndex = loadSlot(TownBlank, GRID_SIZE, save).historyIndex
         /\ lastOp = LoadOp("loaded", StoredSave(GRID_SIZE, save))
         /\ pushed = <<Snap(loadSlot(TownBlank, GRID_SIZE, save))>>
    /\ currentGoal = NoGoal
    /\ gameStarted = TRUE
    /\ aiEnabled = FALSE
    /\ steps = 0
    /\ rewinds = 0
    /\ PathIdle
    /\ LandIdle
    /\ CostIdle
    /\ RaceIdle

\* The clicked tiles: lot 1 and the tile diagonally behind it, always empty.
TownClicks == {<<0, 0>>, <<1, 1>>}

TownTools == {"None", "Residential", "Highway"}

\* handleTileClick with a building tool or the flower.
TownClick ==
    /\ variant = "town"
    /\ \E c \in TownClicks, category \in {"building", "decoration"} :
         \E tool \in (IF category = "building" THEN TownTools ELSE {"Flower"}) :
            ClickStep(TileClick(St, GRID_SIZE, c[1], c[2], category, tool, "#FFADAD"),
                      c[1], c[2], category, tool, MaxTownSteps)

NextTown == TownClick

SpecTown == InitTown /\ [][NextTown]_vars

-----------------------------------------------------------------------------
(* Claims about the hook's clicks on a loaded town *)

\* The quests that the step completes.
NewlyCompleted ==
    {i \in 1 .. Len(quests) : ~quests[i].completed /\ quests'[i].completed}

RECURSIVE RewardSum(_, _)
\* The rewards of the quests with the indices in S.
RewardSum(qs, S) ==
    IF S = {} THEN 0
    ELSE LET i == CHOOSE i \in S : TRUE
         IN  qs[i].rewardMoney + RewardSum(qs, S \ {i})

\* What the branch of the click itself adds to the money: the refund of a
\* demolition, minus the price of a placement or of an upgrade, nothing for
\* a decoration.
ClickMoney(o) ==
    LET tile == grid[o.y][o.x]
    IN  CASE o.outcome = "placed"     -> 0 - HookPrice(o)
          [] o.outcome = "upgraded"   -> 0 - UpgradeCost(HookPrice(o), tile.level)
          [] o.outcome = "demolished" ->
                MathFloor(3 * calculateBuildingCost(grid, stats.money, GRID_SIZE,
                                                    tile.buildingType, o.x, o.y), 10)
          [] OTHER                    -> 0

\* How often the snapshots recorded so far show quest i turning completed.
TimesCompleted(i) ==
    Cardinality({k \in 1 .. Len(pushed) - 1 :
                   ~pushed[k].quests[i].completed /\ pushed[k + 1].quests[i].completed})

\* C23: a placement, demolition, upgrade or decoration adds to the money,
\* besides its own price or refund, exactly the rewards of the quests that it
\* turns from not completed to completed; a quest completed before the step
\* is left as it is; a click that does none of these changes neither money
\* nor quests; and along the clicks no quest turns completed twice.
C23_QuestRewardOnce ==
    /\ [][lastOp'.op = "click" =>
            IF IsPush(lastOp')
            THEN /\ stats'.money = stats.money + ClickMoney(lastOp')
                                   + RewardSum(quests, NewlyCompleted)
                 /\ \A i \in 1 .. Len(quests) :
                       quests[i].completed => quests'[i] = quests[i]
            ELSE stats' = stats /\ quests' = quests]_vars
    /\ [](\A i \in 1 .. Len(quests) : TimesCompleted(i) <= 1)

\* A first click completed the quests for three houses and for twenty
\* inhabitants at once; the next one built the first highway and completed
\* that quest alone.
C23_Witness ==
    /\ variant = "town"
    /\ Len(pushed) = 3
    /\ ~pushed[1].quests[1].completed /\ pushed[2].quests[1].completed
    /\ ~pushed[1].quests[3].completed /\ pushed[2].quests[3].completed
    /\ ~pushed[2].quests[4].completed /\ quests[4].completed
    /\ lastOp.outcome = "placed"
    /\ lastOp.tool = "Highway"
    /\ stats.money > pushed[2].stats.money

\* The land value of the tile c as section 4.2 defines it, in tenths: 1 at
\* the parks falling by 0.1 a move to 0 at 10 moves, and 0.1 beyond or
\* without any park.
LandTenths(g, c) ==
    IF ParkDistance(g, GRID_SIZE, c) > 10 THEN 1
    ELSE 10 - ParkDistance(g, GRID_SIZE, c)

\* round(baseCost * scalingFactor^existingCount * (1 + landValue * 0.5) * t)
\* with t = 1.25 above the threshold, in exact arithmetic.
ClaimedCost(g, money, type, c) ==
    IF type = "None" THEN 0
    ELSE LET info == BUILDINGS(type)
             n    == CountType(g, GRID_SIZE, type)
             tax  == IF money > 10000 THEN <<5, 4>> ELSE <<1, 1>>
         IN  MathRound(info.baseCost * Pow(info.sfNum, n) * (20 + LandTenths(g, c))
                          * tax[1],
                       Pow(info.sfDen, n) * 20 * tax[2])

UpgradeClick(o) ==
    /\ ClickOnGrid(o)
    /\ o.category = "building"
    /\ o.tool # "None"
    /\ grid[o.y][o.x].buildingType = o.tool

\* round(calculateBuildingCost(kind, x, y) * (1 + level * 0.8)) for the
\* clicked tile at its level before the click.
UpgradePrice(o) == MathRound(HookPrice(o) * (10 + 8 * grid[o.y][o.x].level), 10)

\* The tile is below level 5 and the money covers the upgrade price.
UpgradeAccepted(o) ==
    grid[o.y][o.x].level < 5 /\ stats.money >= UpgradePrice(o)

\* The grid with the level of the clicked tile raised by 1.
GridUpgraded(o) == [grid EXCEPT ![o.y][o.x] = [@ EXCEPT !.level = @ + 1]]

\* C25 (as stated): a click with the kind the tile holds upgrades it only if
\* its level is below 5 and the money covers the upgrade price; then the
\* money falls by exactly that price and the level rises by exactly 1;
\* otherwise nothing changes.
C25_UpgradeCostsPrice ==
    [][UpgradeClick(lastOp') =>
         IF UpgradeAccepted(lastOp')
         THEN /\ stats'.money = stats.money - UpgradePrice(lastOp')
              /\ grid' = GridUpgraded(lastOp')
         ELSE NoMutation]_vars

\* C25 (amended): as above, but on success the money changes by minus the
\* price plus the rewards of the quests that the step completes, and the
\* population is recounted.
C25_UpgradePricing ==
    [][UpgradeClick(lastOp') =>
         IF UpgradeAccepted(lastOp')
         THEN /\ lastOp'.outcome = "upgraded"
              /\ stats'.money = stats.money - UpgradePrice(lastOp')
                                + RewardSum(quests, NewlyCompleted)
              /\ grid' = GridUpgraded(lastOp')
         ELSE NoMutation]_vars

\* The second click upgraded a house and left more money than there was:
\* the house was paid for and a quest completed by the upgrade paid more.
C25_Witness ==
    /\ variant = "town"
    /\ Len(pushed) = 3
    /\ lastOp.outcome = "upgraded"
    /\ stats.money > pushed[2].stats.money
    /\ grid[lastOp.y][lastOp.x].level = pushed[2].grid[lastOp.y][lastOp.x].level + 1

-----------------------------------------------------------------------------
(* Claims about the hook's history cursor *)

\* C26: in the hook, whenever the history is not empty the cursor is within
\* it, the history holds at most 20 snapshots, and the snapshot at the cursor
\* equals the current grid, stats and quests; the cursor is -1 only while the
\* history is empty.
C26_CursorInvariant ==
    variant = "hook" =>
        /\ history # <<>> =>
              /\ 0 <= historyIndex
              /\ historyIndex <= Len(history) - 1
              /\ Len(history) - 1 <= 19
              /\ history[historyIndex + 1] = [grid |-> grid, stats |-> stats,
                                              quests |-> quests]
        /\ historyIndex = -1 => history = <<>>

\* The village was loaded and its tile toggled until the history was full
\* and had dropped snapshots; the last undo has moved the cursor off the end.
C26_Witness ==
    /\ variant = "hook"
    /\ Len(pushed) > 21
    /\ pushed[1].grid = SaveVillage.grid
    /\ Len(history) = 20
    /\ historyIndex = 18
    /\ lastOp.op = "undo"

-----------------------------------------------------------------------------
(* Claims about the states the hook reaches *)

\* The snapshot of a fresh world.
FreshWorld ==
    [grid |-> createInitialGrid(GRID_SIZE), stats |-> InitialStatsHook,
     quests |-> INITIAL_QUESTS]

\* C27: in the hook the money is never negative, whatever is placed,
\* demolished, upgraded, decorated, undone or redone.
C27_TreasuryNotNegative == variant = "hook" => stats.money >= 0

\* On a fresh world a police station was built and the next purchase was
\* refused: the 475 left do not pay for it.
C27_Witness ==
    /\ variant = "hook"
    /\ Len(pushed) = 2
    /\ pushed[1] = FreshWorld
    /\ CountType(grid, GRID_SIZE, "Police") = 1
    /\ lastOp.outcome = "insufficient"
    /\ stats.money = 475

\* The tiles of the grid holding the kind at the level.
TilesAt(kind, level) ==
    {c \in Coords(GRID_SIZE) :
       grid[c[2]][c[1]].buildingType = kind /\ grid[c[2]][c[1]].level = level}

\* floor(pop * (1 + (level - 1) * 0.75)) for the levels 1 to 5.
PopAtLevel(pop, level) == (pop * (4 + 3 * (level - 1))) \div 4

\* The inhabitants of the occupied tiles of a kind.
PopOfKind(kind) ==
      Cardinality(TilesAt(kind, 1)) * PopAtLevel(BUILDINGS(kind).pop, 1)
    + Cardinality(TilesAt(kind, 2)) * PopAtLevel(BUILDINGS(kind).pop, 2)
    + Cardinality(TilesAt(kind, 3)) * PopAtLevel(BUILDINGS(kind).pop, 3)
    + Cardinality(TilesAt(kind, 4)) * PopAtLevel(BUILDINGS(kind).pop, 4)
    + Cardinality(TilesAt(kind, 5)) * PopAtLevel(BUILDINGS(kind).pop, 5)

\* C28: in the hook the population is the sum over the occupied tiles of
\* floor(pop(kind) * (1 + (level - 1) * 0.75)).
C28_PopulationOfGrid ==
    variant = "hook" =>
        stats.population =
              PopOfKind("Residential") + PopOfKind("Commercial")
            + PopOfKind("Industrial") + PopOfKind("Road") + PopOfKind("Highway")
            + PopOfKind("Park") + PopOfKind("Police") + PopOfKind("School")

\* A house was built and upgraded, 7 people lived in it; the upgrade has been
\* undone and 4 are left.
C28_Witness ==
    /\ variant = "hook"
    /\ lastOp.op = "undo"
    /\ lastOp.outcome = "undone"
    /\ Len(history) = 2
    /\ history[2].stats.population = 7
    /\ stats.population = 4
    /\ CountType(grid, GRID_SIZE, "Residential") = 1

\* The grid has one row per y and one tile per x in each row, the tile at
\* grid[y][x] carries the coordinates (x, y), every level is between 1 and 5
\* and every empty tile has level 1.
GridWellFormed ==
    /\ DOMAIN grid = 0 .. GRID_SIZE - 1
    /\ \A y \in 0 .. GRID_SIZE - 1 :
          /\ DOMAIN grid[y] = 0 .. GRID_SIZE - 1
          /\ \A x \in 0 .. GRID_SIZE - 1 :
                /\ grid[y][x].x = x
                /\ grid[y][x].y = y
                /\ grid[y][x].level \in 1 .. 5
                /\ grid[y][x].buildingType = "None" => grid[y][x].level = 1

\* C29: in the hook every tile has a level from 1 to 5, every empty tile has
\* level 1, the tile (x, y) is the one stored at grid[y][x], and a building
\* that has just been placed has level 1 and no decoration.
C29_TileLevels ==
    /\ [](variant \in {"hook", "town"} => GridWellFormed)
    /\ [][(/\ variant' \in {"hook", "town"}
           /\ lastOp'.op = "click"
           /\ lastOp'.outcome = "placed") =>
             /\ grid'[lastOp'.y][lastOp'.x].buildingType = lastOp'.tool
             /\ grid'[lastOp'.y][lastOp'.x].level = 1
             /\ grid'[lastOp'.y][lastOp'.x].decoration = "None"]_vars

\* A house of level 5 has been clicked once more with its own kind and has
\* stayed at level 5, after the empty tile behind it got a flower.
C29_Witness ==
    /\ variant = "town"
    /\ lastOp.outcome = "maxlevel"
    /\ grid[0][0].level = 5
    /\ grid[1][1].decoration = "Flower"
    /\ grid[1][1].buildingType = "None"
    /\ grid[1][1].level = 1

-----------------------------------------------------------------------------
(* The hook on a loaded town: a placement and the demolition right after it *)

\* The tiles built on: lot 1 where it is empty, the tile diagonally behind
\* it, and the corner at the end of the first column.
RefundClicks == {<<0, 0>>, <<1, 1>>, <<0, GRID_SIZE - 1>>}

\* handleTileClick with a building kind on an empty tile of the loaded town.
RefundPlace ==
    /\ variant = "town"
    /\ lastOp.op = "load"
    /\ \E c \in RefundClicks, tool \in BuildingTypes \ {"None"} :
         /\ grid[c[2]][c[1]].buildingType = "None"
         /\ ClickStep(TileClick(St, GRID_SIZE, c[1], c[2], "building", tool, "#FFADAD"),
                      c[1], c[2], "building", tool, MaxTownSteps)

\* handleTileClick with the bulldozer on the tile that was just built on.
RefundDemolish ==
    /\ variant = "town"
    /\ lastOp.op = "click"
    /\ lastOp.outcome = "placed"
    /\ ClickStep(TileClick(St, GRID_SIZE, lastOp.x, lastOp.y, "building", "None",
                           "#FFADAD"),
                 lastOp.x, lastOp.y, "building", "None", MaxTownSteps)

NextRefund == RefundPlace \/ RefundDemolish

SpecRefund == InitTown /\ [][NextRefund]_vars

\* The rewards of the quests that are completed in snapshot b and were not
\* in snapshot a.
RewardBetween(a, b) ==
    RewardSum(a.quests, {i \in 1 .. Len(a.quests) :
                           ~a.quests[i].completed /\ b.quests[i].completed})

\* The last two clicks placed a building on an empty tile and demolished it.
PlacedThenDemolished ==
    /\ variant = "town"
    /\ lastOp.op = "click"
    /\ lastOp.outcome = "demolished"
    /\ Len(pushed) = 3
    /\ pushed[1].grid[lastOp.y][lastOp.x].buildingType = "None"
    /\ pushed[2].grid[lastOp.y][lastOp.x].buildingType # "None"

\* C30: after a building is placed on an empty tile and demolished by the
\* next click, the money without the quest rewards of the two clicks is
\* strictly below the money before the placement, and the demolition has
\* added floor(0.3 * cost), the cost being that of the kind on the grid that
\* still holds the building and at the money held then.
C30_RefundBelowPrice ==
    PlacedThenDemolished =>
        LET x      == lastOp.x
            y      == lastOp.y
            before == pushed[1]
            built  == pushed[2]
            cost   == calculateBuildingCost(built.grid, built.stats.money, GRID_SIZE,
                                            built.grid[y][x].buildingType, x, y)
            refund == (3 * cost) \div 10
        IN  /\ stats.money = built.stats.money + refund + RewardBetween(built, pushed[3])
            /\ stats.money - RewardBetween(before, built) - RewardBetween(built, pushed[3])
                 < before.stats.money

\* A park was laid out with 10000 coins in the treasury; the money quest paid
\* on that click, so the demolition was priced with the wealth tax and with
\* the park's own land value.
C30_Witness ==
    /\ PlacedThenDemolished
    /\ pushed[2].grid[lastOp.y][lastOp.x].buildingType = "Park"
    /\ pushed[1].stats.money = 10000
    /\ pushed[2].stats.money > 10000
    /\ RewardBetween(pushed[1], pushed[2]) > 0

=============================================================================
